---- MODULE Spec2Model ----
(***************************************************************************)
(* State-machine model of parts of SU2:                                    *)
(*   - CLinearPartitioner (Common/src/toolboxes/CLinearPartitioner.cpp)     *)
(*   - the ILU block accessors and the dense block kernels of CSysMatrix   *)
(*     (Common/include/linear_algebra/CSysMatrix.inl)                      *)
(*   - the nonlinear iteration of CTNE2EulerSolver                        *)
(*     (SU2_CFD/src/solver_direct_tne2.cpp)                                *)
(*   - the block Gauss-Seidel FSI iteration                               *)
(*     (SU2_FSI/src/iteration_structure_fsi.cpp)                           *)
(*   - the boundary arrays of CFEABoundVariable                            *)
(*     (SU2_CFD/include/variables/CFEABoundVariable.hpp)                   *)
(*   - CTecplotFileWriter::Write_Data                                      *)
(*     (SU2_CFD/src/output/filewriter/CTecplotFileWriter.cpp)              *)
(*   - the edge loops of the residual routines of the TNE2 solvers         *)
(*     (SU2_CFD/src/solver_direct_tne2.cpp)                                *)
(* Floating-point values are modelled by integers; C arrays by functions   *)
(* on 0..n-1; unsigned long by the integers modulo ULongMod.               *)
(***************************************************************************)
EXTENDS Integers, Naturals, Sequences, FiniteSets, TLC

VARIABLES
  \* ---- CLinearPartitioner: constructor arguments and fields
  val_global_count, val_offset, isDisjoint,
  size, firstIndex, lastIndex, sizeOnRank, cumulativeSizeBeforeRank,
  \* ---- CLinearPartitioner::GetRankContainingIndex: last call
  lookup,
  \* ---- CSysMatrix: ILU storage and the last accessor call on it
  nVar, nEqn, row_ptr_ilu, col_ind_ilu, ILU_matrix, iluCall,
  \* ---- block kernels: operands, output array and the calls made on it
  kN, kMatrix, kVector, kProduct, kPrior, kCalls,
  \* ---- CSysMatrix: full storage, scratch arrays and the last call on them
  row_ptr, col_ind, dia_ptr, dia_ptr_ilu, matrix, vec, prod_row_vector,
  block, rhs, invBlock, matCall, nMatCalls,
  \* ---- CTNE2EulerSolver: configuration, and per rank the position in the
  \*      nonlinear iteration, the fields and the messages sent
  adjoint, implicit, Kind_Linear_Solver, Kind_Linear_Solver_Prec,
  Linear_Solver_Iter, linearSystem,
  pc, ExtIter, Solution, LinSysRes, LinSysSol, Jacobian,
  lin, IterLinSol, IterLinSolver, chan, sent, done, solAfter,
  \* ---- FSI_BGS_Iteration: locals, the convergence flag and the calls made
  nFSIIter, iFSIIter, fsiPc, Convergence_FSI, fsiTrace, fsiMonitor,
  \* ---- CFEABoundVariable: the map, the boundary arrays, the last call, and
  \*      whether a vertex status changed since the last allocation
  VertexMap, isAllocated, FlowTraction, FlowTraction_n, Residual_Ext_Surf,
  Residual_Ext_Surf_n, bndCall, bndPc, statusChanged,
  \* ---- CTecplotFileWriter::Write_Data: the run, and per rank the position,
  \*      the loop counters, the stream and its buffer; the file on disk
  tecSize, connectivitySorted, nPoints, nParallel, tecPc, tecAfter,
  iProcessorTec, iRow, Tecplot_File, tecBuffer, tecDisk, nBarrier,
  \* ---- the edge loops of the residual routines of CTNE2EulerSolver and
  \*      CTNE2NSSolver on one mesh: the scheme, LinSysRes, Jacobian, the
  \*      routine running, its loop counter and the routines called
  edgeImplicit, edgeLinSysRes, edgeJacobian, resPc, iEdge, resTrace

partVars == <<val_global_count, val_offset, isDisjoint, size, firstIndex,
              lastIndex, sizeOnRank, cumulativeSizeBeforeRank, lookup>>
iluVars  == <<nVar, nEqn, row_ptr_ilu, col_ind_ilu, ILU_matrix, iluCall>>
kernVars == <<kN, kMatrix, kVector, kProduct, kPrior, kCalls>>
matVars  == <<row_ptr, col_ind, dia_ptr, dia_ptr_ilu, matrix, vec,
              prod_row_vector, block, rhs, invBlock, matCall, nMatCalls>>
tne2Vars == <<adjoint, implicit, Kind_Linear_Solver, Kind_Linear_Solver_Prec,
              Linear_Solver_Iter, linearSystem, pc, ExtIter, Solution,
              LinSysRes, LinSysSol, Jacobian, lin, IterLinSol, IterLinSolver,
              chan, sent, done, solAfter>>
fsiVars  == <<nFSIIter, iFSIIter, fsiPc, Convergence_FSI, fsiTrace, fsiMonitor>>
boundVars == <<VertexMap, isAllocated, FlowTraction, FlowTraction_n,
               Residual_Ext_Surf, Residual_Ext_Surf_n, bndCall, bndPc,
               statusChanged>>
tecVars  == <<tecSize, connectivitySorted, nPoints, nParallel, tecPc, tecAfter,
              iProcessorTec, iRow, Tecplot_File, tecBuffer, tecDisk, nBarrier>>
edgeVars == <<edgeImplicit, edgeLinSysRes, edgeJacobian, resPc, iEdge, resTrace>>
extVars  == <<boundVars, tecVars, edgeVars>>
vars     == <<partVars, iluVars, kernVars, matVars, tne2Vars, fsiVars, extVars>>

\* what the steps of one component leave alone
notPart == <<iluVars, kernVars, matVars, tne2Vars, fsiVars, extVars>>
notIlu  == <<partVars, kernVars, matVars, tne2Vars, fsiVars, extVars>>
notKern == <<partVars, iluVars, matVars, tne2Vars, fsiVars, extVars>>
notTne2 == <<partVars, iluVars, kernVars, matVars, fsiVars, extVars>>
notFsi  == <<partVars, iluVars, kernVars, matVars, tne2Vars, extVars>>
notBound == <<partVars, iluVars, kernVars, matVars, tne2Vars, fsiVars, tecVars,
              edgeVars>>
notTec  == <<partVars, iluVars, kernVars, matVars, tne2Vars, fsiVars, boundVars,
             edgeVars>>
notEdge == <<partVars, iluVars, kernVars, matVars, tne2Vars, fsiVars, boundVars,
             tecVars>>

\* ------------------------------------------------------------------ bounds
MaxGlobal == 7      \* global counts 0..MaxGlobal
MaxSize   == 4      \* MPI sizes 1..MaxSize
MaxOffset == 1      \* offsets 0..MaxOffset
ULongBits == 16     \* modelled width of unsigned long
MaxVar    == 2      \* block rows nVar in 1..MaxVar, block columns nEqn in 1..MaxVar+1
MaxCalls  == 2      \* kernel calls made on one output array
MaxMatCalls == 2    \* operations applied in a row to one matrix
MaxFSIIter == 4     \* nFSIIter in 0..MaxFSIIter
MaxLinIter == 2     \* iteration caps 0..MaxLinIter of the linear solver
MaxExtIter == 2     \* nonlinear iterations run by each rank
MaxTecSize == 3     \* ranks 1..MaxTecSize writing one file
MaxResCalls == 3    \* residual routines run after one Preprocessing

ULongMod == 2^ULongBits

\* unsigned long arithmetic wraps
U(x) == x % ULongMod

Sum(f, n) ==
  LET S[k \in 0..n] == IF k = 0 THEN 0 ELSE S[k-1] + f[k-1] IN S[n]

\* =========================================================================
\* CLinearPartitioner
\* =========================================================================

\* quotient: stays 0 unless val_global_count >= size
Quotient(g, sz) == IF g >= sz THEN g \div sz ELSE 0

Remainder(g, sz) == g % sz

SizeOnRankAtLate(ii, sz, quotient, remainder) ==
  U(quotient + (IF ii >= sz - remainder THEN 1 ELSE 0))

SizeOnRankAtOffByOne(ii, sz, quotient, remainder) ==
  U(quotient + (IF ii <= remainder THEN 1 ELSE 0))

\* sizeOnRank[ii] = quotient + int(ii < remainder)
SizeOnRankAt(ii, sz, quotient, remainder) ==
  U(quotient + (IF ii < remainder THEN 1 ELSE 0))

AdjustNever(disjoint) == 0

\* unsigned long adjust = 0; if (isDisjoint) adjust = 1
Adjust(disjoint) == IF disjoint THEN 1 ELSE 0

CumulativeAtSame(cum, sizes, iProc) == U(cum[iProc-1] + sizes[iProc])

\* cumulativeSizeBeforeRank[iProc] = cumulativeSizeBeforeRank[iProc-1] + sizeOnRank[iProc-1]
CumulativeAt(cum, sizes, iProc) == U(cum[iProc-1] + sizes[iProc-1])

\* the loop over iProc = 1 .. size-1; st holds the three vectors being filled
RECURSIVE IndexLoop(_, _, _, _)
IndexLoop(iProc, sz, adjust, st) ==
  IF iProc >= sz THEN st
  ELSE
    LET first == U(st.lastIndex[iProc-1] + adjust)
        last  == U(first + st.sizeOnRank[iProc] - adjust)
        cum   == CumulativeAt(st.cumulativeSizeBeforeRank, st.sizeOnRank, iProc)
    IN IndexLoop(iProc + 1, sz, adjust,
         [st EXCEPT !.firstIndex[iProc] = first,
                    !.lastIndex[iProc] = last,
                    !.cumulativeSizeBeforeRank[iProc] = cum])

\* the constructor: the fields it leaves for (val_global_count, val_offset, isDisjoint)
\* on sz ranks; the vectors are value-initialised by resize()
Construct(g, offset, disjoint, sz) ==
  LET quotient  == Quotient(g, sz)
      remainder == Remainder(g, sz)
      sizes     == [ii \in 0..sz-1 |-> SizeOnRankAt(ii, sz, quotient, remainder)]
      adjust    == Adjust(disjoint)
      first0    == U(offset)
      last0     == U(first0 + sizes[0] - adjust)
      st0       == [sizeOnRank |-> sizes,
                    firstIndex |-> [ii \in 0..sz-1 |-> IF ii = 0 THEN first0 ELSE 0],
                    lastIndex  |-> [ii \in 0..sz-1 |-> IF ii = 0 THEN last0 ELSE 0],
                    cumulativeSizeBeforeRank |-> [ii \in 0..sz |-> 0]]
      st1       == IndexLoop(1, sz, adjust, st0)
  IN [st1 EXCEPT !.cumulativeSizeBeforeRank[sz] = U(g)]

\* ---- GetRankContainingIndex

InitialGuessNext(val_index, sizes) == (val_index \div sizes[0]) + 1

\* unsigned long iProcessor = val_index/sizeOnRank[0]
InitialGuess(val_index, sizes) == val_index \div sizes[0]

\* if (iProcessor >= size) iProcessor = size-1
ClampGuess(iProcessor, sz) == IF iProcessor >= sz THEN sz - 1 ELSE iProcessor

WalkUpCondStrict(val_index, cum, iProcessor) == val_index > cum[iProcessor + 1]

\* while (val_index >= cumulativeSizeBeforeRank[iProcessor+1])
WalkUpCond(val_index, cum, iProcessor) == val_index >= cum[iProcessor + 1]

\* while (val_index < cumulativeSizeBeforeRank[iProcessor])
WalkDownCond(val_index, cum, iProcessor) == val_index < cum[iProcessor]

\* The two walks.  w records the position, the number of steps up and down and
\* whether a subscript left 0..size (the read is then outside the vector and
\* the walk is cut there).
RECURSIVE WalkUp(_, _, _, _)
WalkUp(val_index, cum, sz, w) ==
  IF w.iProcessor + 1 > sz THEN [w EXCEPT !.outOfRange = TRUE]
  ELSE IF WalkUpCond(val_index, cum, w.iProcessor)
       THEN WalkUp(val_index, cum, sz,
                   [w EXCEPT !.iProcessor = @ + 1, !.up = @ + 1])
       ELSE w

RECURSIVE WalkDown(_, _, _, _)
WalkDown(val_index, cum, sz, w) ==
  IF w.iProcessor > sz THEN [w EXCEPT !.outOfRange = TRUE]
  ELSE IF WalkDownCond(val_index, cum, w.iProcessor)
       THEN WalkDown(val_index, cum, sz,
                     [w EXCEPT !.iProcessor = U(@ - 1), !.down = @ + 1])
       ELSE w

\* GetRankContainingIndex(val_index) on the constructed fields
RankContainingIndex(val_index, sizes, cum, sz) ==
  LET guess == ClampGuess(InitialGuess(val_index, sizes), sz)
      w0    == [iProcessor |-> guess, guess |-> guess, up |-> 0, down |-> 0,
                outOfRange |-> FALSE]
  IN IF guess > sz THEN [w0 EXCEPT !.outOfRange = TRUE]
     ELSE IF val_index >= cum[guess]
          THEN WalkUp(val_index, cum, sz, w0)
          ELSE WalkDown(val_index, cum, sz, w0)

NoLookup == [called |-> FALSE]

PartInit ==
  /\ val_global_count \in 0..MaxGlobal
  /\ val_offset \in 0..MaxOffset
  /\ isDisjoint \in BOOLEAN
  /\ size \in 1..MaxSize
  /\ LET c == Construct(val_global_count, val_offset, isDisjoint, size)
     IN /\ firstIndex = c.firstIndex
        /\ lastIndex = c.lastIndex
        /\ sizeOnRank = c.sizeOnRank
        /\ cumulativeSizeBeforeRank = c.cumulativeSizeBeforeRank
  /\ lookup = NoLookup

\* a call of GetRankContainingIndex with a valid index
GetRankContainingIndex(val_index) ==
  /\ val_index < val_global_count
  /\ LET w == RankContainingIndex(val_index, sizeOnRank,
                                  cumulativeSizeBeforeRank, size)
     IN lookup' = [called |-> TRUE, val_index |-> val_index,
                   rank |-> w.iProcessor, guess |-> w.guess, up |-> w.up,
                   down |-> w.down, outOfRange |-> w.outOfRange]
  /\ UNCHANGED <<val_global_count, val_offset, isDisjoint, size, firstIndex,
                 lastIndex, sizeOnRank, cumulativeSizeBeforeRank>>

\* =========================================================================
\* CSysMatrix: accessors of the ILU storage
\* =========================================================================

\* Block-CSR structures of the ILU copy (row_ptr_ilu, col_ind_ilu): a full
\* 2x2 pattern, a lower-triangular one whose second row is stored out of
\* column order, and a diagonal 3x3 one.
ILUPatterns ==
  { [row_ptr |-> (0 :> 0 @@ 1 :> 2 @@ 2 :> 4),
     col_ind |-> (0 :> 0 @@ 1 :> 1 @@ 2 :> 0 @@ 3 :> 1)],
    [row_ptr |-> (0 :> 0 @@ 1 :> 1 @@ 2 :> 3),
     col_ind |-> (0 :> 0 @@ 1 :> 1 @@ 2 :> 0)],
    [row_ptr |-> (0 :> 0 @@ 1 :> 1 @@ 2 :> 2 @@ 3 :> 3),
     col_ind |-> (0 :> 0 @@ 1 :> 1 @@ 2 :> 2)] }

\* first entries of the blocks handed to the setters; entry k is seed + k
BlockSeeds == {1, 11}

TestBlocks(len) == { [k \in 0..len-1 |-> s + k] : s \in BlockSeeds }

nRowsILU == Cardinality(DOMAIN row_ptr_ilu) - 1
nnzILU   == Cardinality(DOMAIN col_ind_ilu)

\* for (index = row_ptr_ilu[block_i]; index < row_ptr_ilu[block_i+1]; index++)
\*   if (col_ind_ilu[index] == block_j) ...   : where the scan stops
RECURSIVE ScanRow(_, _, _, _, _)
ScanRow(index, block_i, block_j, rptr, cind) ==
  IF index < rptr[block_i + 1]
  THEN IF cind[index] = block_j
       THEN index
       ELSE ScanRow(index + 1, block_i, block_j, rptr, cind)
  ELSE index

ScanFound(index, block_i, rptr) == index < rptr[block_i + 1]

GetBlockPointerSquare(index, nv, ne) == index * nv * nv

\* &ILU_matrix[index*nVar*nEqn], as an offset into ILU_matrix
GetBlockPointer(index, nv, ne) == index * nv * ne

\* GetBlock_ILUMatrix: the pointer returned, or NULL
GetBlock_ILUMatrix(block_i, block_j) ==
  LET index == ScanRow(row_ptr_ilu[block_i], block_i, block_j,
                       row_ptr_ilu, col_ind_ilu)
  IN IF ScanFound(index, block_i, row_ptr_ilu)
     THEN [isNull |-> FALSE, offset |-> GetBlockPointer(index, nVar, nEqn)]
     ELSE [isNull |-> TRUE, offset |-> 0]

SetBlockValuesOverrun(ilu, index, val_block, nv, ne) ==
  [k \in DOMAIN ilu |->
     IF index*nv*ne <= k /\ k <= index*nv*ne + nv*ne
     THEN val_block[(k - index*nv*ne) % (nv*ne)]
     ELSE ilu[k]]

\* for (iVar = 0; iVar < nVar*nEqn; iVar++)
\*   ILU_matrix[index*nVar*nEqn+iVar] = val_block[iVar];
SetBlockValues(ilu, index, val_block, nv, ne) ==
  [k \in DOMAIN ilu |->
     IF index*nv*ne <= k /\ k < index*nv*ne + nv*ne
     THEN val_block[k - index*nv*ne]
     ELSE ilu[k]]

SetBlockTransposedValuesPlain(ilu, index, val_block, nv, ne) ==
  [k \in DOMAIN ilu |->
     IF index*nv*ne <= k /\ k < index*nv*ne + nv*ne
     THEN val_block[k - index*nv*ne]
     ELSE ilu[k]]

\* for iVar < nVar, jVar < nEqn:
\*   ILU_matrix[index*nVar*nEqn+iVar*nEqn+jVar] = val_block[jVar*nVar+iVar];
SetBlockTransposedValues(ilu, index, val_block, nv, ne) ==
  [k \in DOMAIN ilu |->
     IF index*nv*ne <= k /\ k < index*nv*ne + nv*ne
     THEN LET iVar == (k - index*nv*ne) \div ne
              jVar == (k - index*nv*ne) % ne
          IN val_block[jVar*nv + iVar]
     ELSE ilu[k]]

IluInit ==
  /\ nVar \in 1..MaxVar
  /\ nEqn \in 1..(MaxVar + 1)
  /\ \E pat \in ILUPatterns :
       /\ row_ptr_ilu = pat.row_ptr
       /\ col_ind_ilu = pat.col_ind
       /\ ILU_matrix = [k \in 0..(Cardinality(DOMAIN pat.col_ind)*nVar*nEqn - 1) |-> 0]
  /\ iluCall = [op |-> "none"]

CallGetBlock_ILUMatrix(block_i, block_j) ==
  /\ iluCall' = [op |-> "GetBlock", block_i |-> block_i, block_j |-> block_j,
                 ret |-> GetBlock_ILUMatrix(block_i, block_j)]
  /\ UNCHANGED <<nVar, nEqn, row_ptr_ilu, col_ind_ilu, ILU_matrix>>

CallSetBlock_ILUMatrixInsert(block_i, block_j, val_block) ==
  /\ LET index == ScanRow(row_ptr_ilu[block_i], block_i, block_j,
                          row_ptr_ilu, col_ind_ilu)
     IN IF ScanFound(index, block_i, row_ptr_ilu)
        THEN /\ ILU_matrix' = SetBlockValues(ILU_matrix, index, val_block, nVar, nEqn)
             /\ col_ind_ilu' = col_ind_ilu
        ELSE /\ ILU_matrix' = SetBlockValues(ILU_matrix, row_ptr_ilu[block_i],
                                             val_block, nVar, nEqn)
             /\ col_ind_ilu' = [col_ind_ilu EXCEPT ![row_ptr_ilu[block_i]] = block_j]
  /\ iluCall' = [op |-> "SetBlock", block_i |-> block_i, block_j |-> block_j,
                 val_block |-> val_block]
  /\ UNCHANGED <<nVar, nEqn, row_ptr_ilu>>

CallSetBlock_ILUMatrix(block_i, block_j, val_block) ==
  /\ LET index == ScanRow(row_ptr_ilu[block_i], block_i, block_j,
                          row_ptr_ilu, col_ind_ilu)
     IN ILU_matrix' =
          IF ScanFound(index, block_i, row_ptr_ilu)
          THEN SetBlockValues(ILU_matrix, index, val_block, nVar, nEqn)
          ELSE ILU_matrix
  /\ iluCall' = [op |-> "SetBlock", block_i |-> block_i, block_j |-> block_j,
                 val_block |-> val_block]
  /\ UNCHANGED <<nVar, nEqn, row_ptr_ilu, col_ind_ilu>>

CallSetBlockTransposed_ILUMatrix(block_i, block_j, val_block) ==
  /\ LET index == ScanRow(row_ptr_ilu[block_i], block_i, block_j,
                          row_ptr_ilu, col_ind_ilu)
     IN ILU_matrix' =
          IF ScanFound(index, block_i, row_ptr_ilu)
          THEN SetBlockTransposedValues(ILU_matrix, index, val_block, nVar, nEqn)
          ELSE ILU_matrix
  /\ iluCall' = [op |-> "SetBlockTransposed", block_i |-> block_i,
                 block_j |-> block_j, val_block |-> val_block]
  /\ UNCHANGED <<nVar, nEqn, row_ptr_ilu, col_ind_ilu>>

\* =========================================================================
\* CSysMatrix: dense block kernels
\* =========================================================================

\* values standing for the floating-point entries of blocks and vectors
Vals == {-1, 2}

\* the j loop of gemv_impl for row i
RECURSIVE GemvRow(_, _, _, _, _, _, _, _)
GemvRow(n, a, b, c, i, j, alpha, transp) ==
  IF j >= n THEN c
  ELSE LET t == IF transp THEN j ELSE i
           s == IF transp THEN i ELSE j
       IN GemvRow(n, a, b,
                  [c EXCEPT ![t] = IF alpha THEN @ + a[i*n+j] * b[s]
                                            ELSE @ - a[i*n+j] * b[s]],
                  i, j + 1, alpha, transp)

\* the i loop of gemv_impl
RECURSIVE GemvLoop(_, _, _, _, _, _, _, _)
GemvLoop(n, a, b, c, i, alpha, beta, transp) ==
  IF i >= n THEN c
  ELSE LET c0 == IF ~beta THEN [c EXCEPT ![i] = 0] ELSE c
       IN GemvLoop(n, a, b, GemvRow(n, a, b, c0, i, 0, alpha, transp),
                   i + 1, alpha, beta, transp)

\* gemv_impl<T, alpha, beta, transp>(n, a, b, c): the content it leaves in c
gemv_impl(n, a, b, c, alpha, beta, transp) ==
  GemvLoop(n, a, b, c, 0, alpha, beta, transp)

MatrixVectorProductKeep(n, a, b, c) ==
  gemv_impl(n, a, b, c, TRUE, TRUE, FALSE)

MatrixVectorProduct(n, a, b, c) ==
  gemv_impl(n, a, b, c, TRUE, FALSE, FALSE)

MatrixVectorProductAdd(n, a, b, c) ==
  gemv_impl(n, a, b, c, TRUE, TRUE, FALSE)

MatrixVectorProductSub(n, a, b, c) ==
  gemv_impl(n, a, b, c, FALSE, TRUE, FALSE)

MatrixVectorProductTranspNot(n, a, b, c) ==
  gemv_impl(n, a, b, c, TRUE, TRUE, FALSE)

MatrixVectorProductTransp(n, a, b, c) ==
  gemv_impl(n, a, b, c, TRUE, TRUE, TRUE)

\* prior contents of the output array: zero, or distinct non-zero entries
PriorVectors(n) == { [k \in 0..n-1 |-> 0], [k \in 0..n-1 |-> 3 * k + 5] }

KernInit ==
  /\ kN \in 1..MaxVar
  /\ kMatrix \in [0..(kN*kN - 1) -> Vals]
  /\ kVector \in [0..(kN - 1) -> Vals]
  /\ kProduct \in PriorVectors(kN)
  /\ kPrior = <<>>
  /\ kCalls = <<>>

KernelCall(name, result) ==
  /\ Len(kCalls) < MaxCalls
  /\ kProduct' = result
  /\ kPrior' = Append(kPrior, kProduct)
  /\ kCalls' = Append(kCalls, name)
  /\ UNCHANGED <<kN, kMatrix, kVector>>

CallMatrixVectorProduct ==
  KernelCall("MatrixVectorProduct",
             MatrixVectorProduct(kN, kMatrix, kVector, kProduct))

CallMatrixVectorProductAdd ==
  KernelCall("MatrixVectorProductAdd",
             MatrixVectorProductAdd(kN, kMatrix, kVector, kProduct))

CallMatrixVectorProductSub ==
  KernelCall("MatrixVectorProductSub",
             MatrixVectorProductSub(kN, kMatrix, kVector, kProduct))

CallMatrixVectorProductTransp ==
  KernelCall("MatrixVectorProductTransp",
             MatrixVectorProductTransp(kN, kMatrix, kVector, kProduct))

\* =========================================================================
\* CSysMatrix: row products on the full storage
\* =========================================================================

\* Block-CSR structures (row_ptr, col_ind, dia_ptr) with unique columns in
\* every row and dia_ptr at the diagonal entry: a full 2x2 pattern, a 3x3
\* tridiagonal one, and a 3x3 one whose rows 1 and 2 are stored out of
\* column order.
MatrixPatterns ==
  { [row_ptr |-> (0 :> 0 @@ 1 :> 2 @@ 2 :> 4),
     col_ind |-> (0 :> 0 @@ 1 :> 1 @@ 2 :> 0 @@ 3 :> 1),
     dia_ptr |-> (0 :> 0 @@ 1 :> 3)],
    [row_ptr |-> (0 :> 0 @@ 1 :> 2 @@ 2 :> 5 @@ 3 :> 7),
     col_ind |-> (0 :> 0 @@ 1 :> 1 @@ 2 :> 0 @@ 3 :> 1 @@ 4 :> 2 @@ 5 :> 1 @@ 6 :> 2),
     dia_ptr |-> (0 :> 0 @@ 1 :> 3 @@ 2 :> 6)],
    [row_ptr |-> (0 :> 0 @@ 1 :> 2 @@ 2 :> 5 @@ 3 :> 7),
     col_ind |-> (0 :> 0 @@ 1 :> 1 @@ 2 :> 2 @@ 3 :> 1 @@ 4 :> 0 @@ 5 :> 2 @@ 6 :> 1),
     dia_ptr |-> (0 :> 0 @@ 1 :> 3 @@ 2 :> 5)] }

nRows == Cardinality(DOMAIN row_ptr) - 1
Rows  == 0..(nRows - 1)

\* contents of the value array and of the vector: increasing positive
\* entries, or entries of both signs
MatrixFills(len) ==
  { [k \in 0..len-1 |-> k + 1],
    [k \in 0..len-1 |-> (IF k % 2 = 0 THEN 1 ELSE -1) * ((k % 3) + 1)] }

VectorFills(len) ==
  { [k \in 0..len-1 |-> k + 1],
    [k \in 0..len-1 |-> 2 - k] }

ZeroVector(len) == [k \in 0..len-1 |-> 0]

\* &a[offset] seen as an array of len entries
Slice(a, offset, len) == [k \in 0..len-1 |-> a[offset + k]]

\* the loop of UpperProduct / LowerProduct over the entries index .. last-1
RECURSIVE RowProductLoop(_, _, _, _, _, _, _)
RowProductLoop(index, last, mat, cols, v, n, prod) ==
  IF index >= last THEN prod
  ELSE LET col_j == cols[index]
       IN RowProductLoop(index + 1, last, mat, cols, v, n,
            MatrixVectorProductAdd(n, Slice(mat, index*n*n, n*n),
                                   Slice(v, col_j*n, n), prod))

UpperProductFromDiagonal(v, row_i, prod) ==
  RowProductLoop(dia_ptr[row_i], row_ptr[row_i + 1], matrix, col_ind, v,
                 nVar, ZeroVector(nVar))

\* UpperProduct(vec, row_i): prod_row_vector after the call, prod before it
UpperProduct(v, row_i, prod) ==
  RowProductLoop(dia_ptr[row_i] + 1, row_ptr[row_i + 1], matrix, col_ind, v,
                 nVar, ZeroVector(nVar))

LowerProductThroughDiagonal(v, row_i, prod) ==
  RowProductLoop(row_ptr[row_i], dia_ptr[row_i] + 1, matrix, col_ind, v,
                 nVar, ZeroVector(nVar))

\* LowerProduct(vec, row_i)
LowerProduct(v, row_i, prod) ==
  RowProductLoop(row_ptr[row_i], dia_ptr[row_i], matrix, col_ind, v,
                 nVar, ZeroVector(nVar))

DiagonalProductAccumulate(v, row_i, prod) ==
  MatrixVectorProductAdd(nVar, Slice(matrix, dia_ptr[row_i]*nVar*nVar, nVar*nVar),
                         Slice(v, row_i*nVar, nVar), prod)

\* DiagonalProduct(vec, row_i)
DiagonalProduct(v, row_i, prod) ==
  MatrixVectorProduct(nVar, Slice(matrix, dia_ptr[row_i]*nVar*nVar, nVar*nVar),
                      Slice(v, row_i*nVar, nVar), prod)

NoMatCall == [op |-> "none"]

\* a matrix with its structure, without ILU copy, before any call
MatStructInit ==
  /\ nVar \in 1..MaxVar
  /\ nEqn = nVar
  /\ \E pat \in MatrixPatterns :
       /\ row_ptr = pat.row_ptr
       /\ col_ind = pat.col_ind
       /\ dia_ptr = pat.dia_ptr
  /\ vec \in VectorFills(nRows * nVar)
  /\ prod_row_vector = ZeroVector(nVar)
  /\ block = ZeroVector(nVar * nVar)
  /\ rhs = ZeroVector(nVar)
  /\ invBlock = ZeroVector(nVar * nVar)
  /\ matCall = NoMatCall
  /\ nMatCalls = 0

NoILUCopy ==
  /\ row_ptr_ilu = <<>> /\ col_ind_ilu = <<>> /\ dia_ptr_ilu = <<>>
  /\ ILU_matrix = <<>> /\ iluCall = [op |-> "none"]

RowProdInit ==
  /\ MatStructInit
  /\ matrix \in MatrixFills(Cardinality(DOMAIN col_ind) * nVar * nVar)
  /\ NoILUCopy

RowProductCall(name, row_i, result) ==
  /\ prod_row_vector' = result
  /\ matCall' = [op |-> name, row_i |-> row_i, before |-> prod_row_vector]
  /\ UNCHANGED <<row_ptr, col_ind, dia_ptr, dia_ptr_ilu, matrix, vec, block,
                 rhs, invBlock>>
  /\ UNCHANGED iluVars

CallUpperProduct(row_i) ==
  RowProductCall("UpperProduct", row_i, UpperProduct(vec, row_i, prod_row_vector))

CallLowerProduct(row_i) ==
  RowProductCall("LowerProduct", row_i, LowerProduct(vec, row_i, prod_row_vector))

CallDiagonalProduct(row_i) ==
  RowProductCall("DiagonalProduct", row_i,
                 DiagonalProduct(vec, row_i, prod_row_vector))

\* =========================================================================
\* CSysMatrix: dense operations on diagonal blocks
\* =========================================================================

\* gemm_impl(n, a, b, c): the content it leaves in c
gemm_impl(n, a, b) ==
  [k \in 0..(n*n - 1) |->
     Sum([q \in 0..n-1 |-> a[(k \div n)*n + q] * b[q*n + (k % n)]], n)]

\* a with row i and column j removed
MinorOf(a, n, i, j) ==
  [k \in 0..((n-1)*(n-1) - 1) |->
     LET r == k \div (n-1)
         c == k % (n-1)
     IN a[(IF r < i THEN r ELSE r + 1) * n + (IF c < j THEN c ELSE c + 1)]]

RECURSIVE Determinant(_, _)
Determinant(a, n) ==
  IF n = 0 THEN 1
  ELSE Sum([j \in 0..n-1 |->
              (IF j % 2 = 0 THEN 1 ELSE -1) * a[j] * Determinant(MinorOf(a, n, 0, j), n - 1)],
           n)

\* the blocks whose inverse has integer entries
Invertible(a, n) == Determinant(a, n) \in {1, -1}

\* MatrixInverse(mat, inverse): the explicit inverse of an n x n block
MatrixInverse(a, n) ==
  LET det == Determinant(a, n)
  IN [k \in 0..(n*n - 1) |->
        LET i == k \div n
            j == k % n
        IN ((IF (i + j) % 2 = 0 THEN 1 ELSE -1)
              * Determinant(MinorOf(a, n, j, i), n - 1)) \div det]

\* Gauss_Elimination(block, rhs): solves block * x = rhs in place.  rhs is
\* left holding x; what is left in the block is either its eliminated
\* (upper triangular) part or the block itself.
GaussSolveOutcomes(a, b, n) ==
  LET inv == MatrixInverse(a, n)
      x == [i \in 0..n-1 |-> Sum([j \in 0..n-1 |-> inv[i*n + j] * b[j]], n)]
  IN { [block |-> blk, rhs |-> x] :
         blk \in { a, [k \in 0..(n*n - 1) |-> IF (k \div n) > (k % n) THEN 0 ELSE a[k]] } }

\* the stored diagonal block of row block_i
DiagonalBlock(block_i) == Slice(matrix, dia_ptr[block_i]*nVar*nVar, nVar*nVar)

CopyDiagonalBlockPlain(Block, n, transposed) == Block

\* the copy into the scratch block: memcpy, or the transposing loop
CopyDiagonalBlock(Block, n, transposed) ==
  IF ~transposed THEN Block
  ELSE [k \in 0..(n*n - 1) |-> Block[(k % n)*n + (k \div n)]]

\* the inner loop of the off-diagonal swap, jVar = iVar+1 .. nVar-1
RECURSIVE SwapRow(_, _, _, _)
SwapRow(inv, n, iVar, jVar) ==
  IF jVar >= n THEN inv
  ELSE SwapRow([inv EXCEPT ![iVar*n + jVar] = inv[jVar*n + iVar],
                           ![jVar*n + iVar] = inv[iVar*n + jVar]],
               n, iVar, jVar + 1)

RECURSIVE SwapOffDiagonalAll(_, _, _)
SwapOffDiagonalAll(inv, n, iVar) ==
  IF iVar >= n THEN inv
  ELSE SwapOffDiagonalAll(SwapRow(inv, n, iVar, 0), n, iVar + 1)

\* the outer loop of the swap, iVar = 0 .. nVar-2
RECURSIVE SwapOffDiagonal(_, _, _)
SwapOffDiagonal(inv, n, iVar) ==
  IF iVar >= n - 1 THEN inv
  ELSE SwapOffDiagonal(SwapRow(inv, n, iVar, iVar + 1), n, iVar + 1)

\* InverseDiagonalBlock(block_i, invBlock, transpose): invBlock after the call
InverseDiagonalBlock(block_i, transpose) ==
  LET inv == MatrixInverse(DiagonalBlock(block_i), nVar)
  IN IF transpose THEN SwapOffDiagonal(inv, nVar, 0) ELSE inv

\* InverseDiagonalBlock_ILUMatrix(block_i, invBlock): invBlock after the call
InverseDiagonalBlock_ILUMatrix(block_i) ==
  MatrixInverse(Slice(ILU_matrix, dia_ptr_ilu[block_i]*nVar*nVar, nVar*nVar), nVar)

\* diagonal blocks with determinant 1: upper unitriangular, or the product
\* of a lower and an upper unitriangular block
UpperUnit(n, r) ==
  [k \in 0..(n*n - 1) |->
     IF (k \div n) = (k % n) THEN 1
     ELSE IF (k \div n) < (k % n) THEN (k \div n) + (k % n) + r ELSE 0]

LowerUnit(n, r) ==
  [k \in 0..(n*n - 1) |->
     IF (k \div n) = (k % n) THEN 1
     ELSE IF (k \div n) > (k % n) THEN (k \div n) + 2 * (k % n) + r + 1 ELSE 0]

DiagonalBlockFill(kind, n, r) ==
  IF kind = "upper" THEN UpperUnit(n, r)
  ELSE gemm_impl(n, LowerUnit(n, r), UpperUnit(n, r))

\* value arrays over the structure (cols, dia): diagonal blocks as above,
\* the other blocks with increasing entries
DiagonalFills(cols, dia, n) ==
  { [k \in 0..(Cardinality(DOMAIN cols)*n*n - 1) |->
       LET index == k \div (n*n)
       IN IF dia[cols[index]] = index
          THEN DiagonalBlockFill(kind, n, cols[index])[k % (n*n)]
          ELSE k + 1] : kind \in {"upper", "product"} }

\* a matrix and its ILU copy, which starts as a copy of the matrix
DiagInit ==
  /\ MatStructInit
  /\ vec = [k \in 0..(nRows*nVar - 1) |-> k + 1]
  /\ matrix \in DiagonalFills(col_ind, dia_ptr, nVar)
  /\ row_ptr_ilu = row_ptr /\ col_ind_ilu = col_ind /\ dia_ptr_ilu = dia_ptr
  /\ ILU_matrix = matrix
  /\ iluCall = [op |-> "none"]

matScratchFrame == <<row_ptr, col_ind, dia_ptr, dia_ptr_ilu, matrix, vec,
                     nVar, nEqn, row_ptr_ilu, col_ind_ilu, ILU_matrix, iluCall>>

CallGauss_Elimination(block_i, rhs_in, transposed) ==
  /\ Invertible(DiagonalBlock(block_i), nVar)
  /\ LET copied == CopyDiagonalBlock(DiagonalBlock(block_i), nVar, transposed)
     IN /\ \E out \in GaussSolveOutcomes(copied, rhs_in, nVar) :
             block' = out.block /\ rhs' = out.rhs
        /\ matCall' = [op |-> "Gauss_Elimination", block_i |-> block_i,
                       transposed |-> transposed, copied |-> copied,
                       rhs_in |-> rhs_in]
  /\ UNCHANGED <<matScratchFrame, prod_row_vector, invBlock>>

CallInverseDiagonalBlock(block_i, transpose) ==
  /\ Invertible(DiagonalBlock(block_i), nVar)
  /\ invBlock' = InverseDiagonalBlock(block_i, transpose)
  /\ matCall' = [op |-> "InverseDiagonalBlock", block_i |-> block_i,
                 transpose |-> transpose]
  /\ UNCHANGED <<matScratchFrame, prod_row_vector, block, rhs>>

CallInverseDiagonalBlock_ILUMatrix(block_i) ==
  /\ Invertible(Slice(ILU_matrix, dia_ptr_ilu[block_i]*nVar*nVar, nVar*nVar), nVar)
  /\ invBlock' = InverseDiagonalBlock_ILUMatrix(block_i)
  /\ matCall' = [op |-> "InverseDiagonalBlock_ILUMatrix", block_i |-> block_i]
  /\ UNCHANGED <<matScratchFrame, prod_row_vector, block, rhs>>

\* =========================================================================
\* FSI_BGS_Iteration: block Gauss-Seidel coupling of the fluid and the
\* structural zone
\* =========================================================================

\* while (iFSIIter<nFSIIter)
LoopCondInclusive(iIter, nIter) == iIter <= nIter

LoopCond(iIter, nIter) == iIter < nIter

\* where control goes when the loop condition is tested
LoopTest(iIter, nIter) ==
  IF LoopCond(iIter, nIter) THEN "FSI_Disp_Transfer" ELSE "Flow_Update"

\* the calls of one pass through the loop body, in program order
SubIterationCalls ==
  <<"FSI_Disp_Transfer", "Flow_Subiteration", "FSI_Load_Transfer",
    "FEA_Subiteration", "FSI_Disp_Relaxation", "Convergence_Monitoring_FSI">>

\* the calls after the loop
ClosingCalls == <<"Flow_Update", "FEA_Update", "SetConvergence_FSI">>

FsiInit ==
  /\ nFSIIter \in 0..MaxFSIIter
  /\ iFSIIter = 0
  /\ fsiPc = "FSI_Disp_Predictor"
  /\ Convergence_FSI \in BOOLEAN
  /\ fsiTrace = <<>>
  /\ fsiMonitor = <<>>

\* a call that does not touch the locals or the flag
FsiCall(name, after) ==
  /\ fsiPc = name
  /\ fsiTrace' = Append(fsiTrace, name)
  /\ fsiPc' = after
  /\ UNCHANGED <<nFSIIter, iFSIIter, Convergence_FSI, fsiMonitor>>

FSI_Disp_Predictor == FsiCall("FSI_Disp_Predictor", LoopTest(iFSIIter, nFSIIter))

FSI_Disp_Transfer == FsiCall("FSI_Disp_Transfer", "Flow_Subiteration")

Flow_Subiteration == FsiCall("Flow_Subiteration", "FSI_Load_Transfer")

FSI_Load_Transfer == FsiCall("FSI_Load_Transfer", "FEA_Subiteration")

FEA_Subiteration == FsiCall("FEA_Subiteration", "FSI_Disp_Relaxation")

FSI_Disp_Relaxation == FsiCall("FSI_Disp_Relaxation", "Convergence_Monitoring_FSI")

\* Convergence_Monitoring_FSI decides the flag; then
\* if (GetConvergence_FSI()) break; iFSIIter++; and the loop test
Convergence_Monitoring_FSI ==
  /\ fsiPc = "Convergence_Monitoring_FSI"
  /\ fsiTrace' = Append(fsiTrace, "Convergence_Monitoring_FSI")
  /\ \E converged \in BOOLEAN :
       /\ Convergence_FSI' = converged
       /\ fsiMonitor' = Append(fsiMonitor, converged)
       /\ IF converged
          THEN iFSIIter' = iFSIIter /\ fsiPc' = "Flow_Update"
          ELSE iFSIIter' = iFSIIter + 1
               /\ fsiPc' = LoopTest(iFSIIter + 1, nFSIIter)
  /\ UNCHANGED nFSIIter

Flow_Update == FsiCall("Flow_Update", "FEA_Update")

FEA_Update == FsiCall("FEA_Update", "SetConvergence_FSI")

\* SetConvergence_FSI(false), and the function returns
SetConvergence_FSI ==
  /\ fsiPc = "SetConvergence_FSI"
  /\ fsiTrace' = Append(fsiTrace, "SetConvergence_FSI")
  /\ Convergence_FSI' = FALSE
  /\ fsiPc' = "return"
  /\ UNCHANGED <<nFSIIter, iFSIIter, fsiMonitor>>

\* =========================================================================
\* CTNE2EulerSolver: the nonlinear iteration on two neighbouring ranks
\* =========================================================================

\* Each rank owns point 0 (iPoint < nPointDomain) and holds point 1, the
\* halo copy of its neighbour's point 0 (nPointDomain <= iPoint < nPoint).
TNE2Ranks   == {0, 1}
OwnedPoints == {0}
HaloPoints  == {1}
Points      == OwnedPoints \cup HaloPoints
Neighbour(iRank) == 1 - iRank

KrylovSolvers   == {"BCGSTAB", "FGMRES"}
LinearSolvers   == KrylovSolvers \cup {"OTHER"}
\* the kinds for which ImplicitEuler_Iteration builds a preconditioner
BuiltPreconditioners == {"JACOBI", "LU_SGS", "LINELET"}
Preconditioners == BuiltPreconditioners \cup {"ILU"}

\* CPreconditioner* precond = NULL, assigned in the branches for JACOBI,
\* LU_SGS and LINELET only
precond ==
  IF Kind_Linear_Solver_Prec = "JACOBI" THEN "CJacobiPreconditioner"
  ELSE IF Kind_Linear_Solver_Prec = "LU_SGS" THEN "CLU_SGSPreconditioner"
  ELSE IF Kind_Linear_Solver_Prec = "LINELET" THEN "CLineletPreconditioner"
  ELSE "NULL"

\* a linear system: the number of iterations it needs to reach the
\* tolerance, and whether the recurrence breaks down with NaN
LinearSystems ==
  { [needed |-> n, nan |-> FALSE] : n \in {0, 1, MaxLinIter + 1} }
    \cup { [needed |-> MaxLinIter + 1, nan |-> TRUE] }

InitialSolution(iRank) == 10 * (iRank + 1)

ZeroPoints == [iPoint \in Points |-> 0]
ZeroBlocks == [ij \in Points \X Points |-> 0]

\* ---- Preprocessing
\* for (iPoint = 0; iPoint < nPoint; iPoint ++) LinSysRes.SetBlock_Zero(iPoint)
PreprocessingResidual(res) == [iPoint \in Points |-> 0]

PreprocessingJacobianKeep(jac, impl) == jac

\* if (implicit) Jacobian.SetValZero()
PreprocessingJacobian(jac, impl) == IF impl THEN ZeroBlocks ELSE jac

\* ---- the residual routines on the edge (0, 1) and at point 0
Res_Conv(iRank) == iRank + 1

\* LinSysRes.AddBlock(iPoint, Res_Conv); LinSysRes.SubtractBlock(jPoint, Res_Conv)
UpwindResidual(res, iRank) ==
  [res EXCEPT ![0] = @ + Res_Conv(iRank), ![1] = @ - Res_Conv(iRank)]

\* Jacobian.AddBlock(i,i,Jacobian_i); AddBlock(i,j,Jacobian_j);
\* SubtractBlock(j,i,Jacobian_i); SubtractBlock(j,j,Jacobian_j)
UpwindJacobian(jac) ==
  [jac EXCEPT ![<<0, 0>>] = @ + 1, ![<<0, 1>>] = @ + 2,
              ![<<1, 0>>] = @ - 1, ![<<1, 1>>] = @ - 2]

\* LinSysRes.SubtractBlock(iPoint, Residual)
SourceResidual(res) == [res EXCEPT ![0] = @ - 3]

\* Jacobian.SubtractBlock(iPoint, iPoint, Jacobian_i)
SourceJacobian(jac) == [jac EXCEPT ![<<0, 0>>] = @ - 3]

\* ---- the order of the steps of the two time integration routines
ExplicitEulerStepsExchangeFirst ==
  <<"Set_MPI_Solution", "Sendrecv", "ExplicitEuler_Iteration",
    "SetResidual_RMS", "Returned">>

ExplicitEulerSteps ==
  <<"ExplicitEuler_Iteration", "Set_MPI_Solution", "Sendrecv",
    "SetResidual_RMS", "Returned">>

ImplicitEulerSteps ==
  <<"ImplicitEuler_Iteration", "Solve", "Krylov", "SetIterLinSolver",
    "Set_MPI_Solution", "Sendrecv", "SetResidual_RMS", "Returned">>

IterationSteps == IF implicit THEN ImplicitEulerSteps ELSE ExplicitEulerSteps

Following(name) ==
  IterationSteps[(CHOOSE at \in 1..(Len(IterationSteps) - 1) :
                    IterationSteps[at] = name) + 1]

\* ---- the Krylov solvers: Iterating until the tolerance is reached
\* (Converged), the cap is reached (MaxIterReached) or NaN is detected
\* (Diverged)
KrylovStatus(iter, cap, system) ==
  IF system.needed <= iter THEN "Converged"
  ELSE IF iter >= cap THEN "MaxIterReached"
  ELSE IF system.nan /\ iter >= 1 THEN "Diverged"
  ELSE "Iterating"

Tne2Init ==
  /\ adjoint \in BOOLEAN
  /\ implicit \in BOOLEAN
  /\ Kind_Linear_Solver \in LinearSolvers
  /\ Kind_Linear_Solver_Prec \in Preconditioners
  /\ Linear_Solver_Iter \in 0..MaxLinIter
  /\ linearSystem \in LinearSystems
  \* the linear solver settings are not read by the explicit scheme
  /\ ~implicit => /\ Kind_Linear_Solver = "FGMRES"
                  /\ Kind_Linear_Solver_Prec = "LU_SGS"
                  /\ Linear_Solver_Iter = 0
                  /\ linearSystem = [needed |-> 0, nan |-> FALSE]
  /\ pc = [iRank \in TNE2Ranks |-> "Preprocessing"]
  /\ ExtIter = [iRank \in TNE2Ranks |-> 1]
  \* the constructor ends with Set_MPI_Solution: the halo copies are current
  /\ Solution = [iRank \in TNE2Ranks |->
                   [iPoint \in Points |->
                      IF iPoint \in OwnedPoints THEN InitialSolution(iRank)
                      ELSE InitialSolution(Neighbour(iRank))]]
  /\ LinSysRes = [iRank \in TNE2Ranks |-> ZeroPoints]
  /\ LinSysSol = [iRank \in TNE2Ranks |-> ZeroPoints]
  /\ Jacobian = [iRank \in TNE2Ranks |-> ZeroBlocks]
  /\ lin = [iRank \in TNE2Ranks |-> [iter |-> 0, status |-> "Idle"]]
  /\ IterLinSol = [iRank \in TNE2Ranks |-> 0]
  /\ IterLinSolver = [iRank \in TNE2Ranks |-> 0]
  /\ chan = [iRank \in TNE2Ranks |-> <<>>]
  /\ sent = [iRank \in TNE2Ranks |-> InitialSolution(iRank)]
  /\ done = [iRank \in TNE2Ranks |-> 0]
  /\ solAfter = [iRank \in TNE2Ranks |-> <<>>]

tne2Config == <<adjoint, implicit, Kind_Linear_Solver, Kind_Linear_Solver_Prec,
                Linear_Solver_Iter, linearSystem>>

Preprocessing(iRank) ==
  /\ pc[iRank] = "Preprocessing"
  /\ LinSysRes' = [LinSysRes EXCEPT ![iRank] = PreprocessingResidual(@)]
  /\ Jacobian' = [Jacobian EXCEPT ![iRank] = PreprocessingJacobian(@, implicit)]
  /\ pc' = [pc EXCEPT ![iRank] = "Upwind_Residual"]
  /\ UNCHANGED <<tne2Config, ExtIter, Solution, LinSysSol, lin, IterLinSol,
                 IterLinSolver, chan, sent, done, solAfter>>

Upwind_Residual(iRank) ==
  /\ pc[iRank] = "Upwind_Residual"
  /\ LinSysRes' = [LinSysRes EXCEPT ![iRank] = UpwindResidual(@, iRank)]
  /\ Jacobian' = [Jacobian EXCEPT ![iRank] =
                    IF implicit THEN UpwindJacobian(@) ELSE @]
  /\ pc' = [pc EXCEPT ![iRank] = "Source_Residual"]
  /\ UNCHANGED <<tne2Config, ExtIter, Solution, LinSysSol, lin, IterLinSol,
                 IterLinSolver, chan, sent, done, solAfter>>

\* the last residual routine; the time integration routine is entered next
Source_Residual(iRank) ==
  /\ pc[iRank] = "Source_Residual"
  /\ LinSysRes' = [LinSysRes EXCEPT ![iRank] = SourceResidual(@)]
  /\ Jacobian' = [Jacobian EXCEPT ![iRank] =
                    IF implicit THEN SourceJacobian(@) ELSE @]
  /\ pc' = [pc EXCEPT ![iRank] = Head(IterationSteps)]
  /\ UNCHANGED <<tne2Config, ExtIter, Solution, LinSysSol, lin, IterLinSol,
                 IterLinSolver, chan, sent, done, solAfter>>

\* the update loop of ExplicitEuler_Iteration:
\*   if (!adjoint) node[iPoint]->AddSolution(iVar, -Res*Delta), with Delta = 1
ExplicitEuler_Iteration(iRank) ==
  /\ pc[iRank] = "ExplicitEuler_Iteration"
  /\ LET updated == IF adjoint THEN Solution[iRank][0]
                    ELSE Solution[iRank][0] - LinSysRes[iRank][0]
     IN /\ Solution' = [Solution EXCEPT ![iRank][0] = updated]
        /\ solAfter' = [solAfter EXCEPT ![iRank] = Append(@, updated)]
  /\ pc' = [pc EXCEPT ![iRank] = Following("ExplicitEuler_Iteration")]
  /\ UNCHANGED <<tne2Config, ExtIter, LinSysRes, LinSysSol, Jacobian, lin,
                 IterLinSol, IterLinSolver, chan, sent, done>>

\* node[iPoint]->GetResTruncError() of the owned point of a rank
GetResTruncError(iRank) == 2 * iRank

\* config->GetLinear_Solver_Relax()
Linear_Solver_Relax == 2

ImplicitRightHandSideKeepHalo(res, iRank) ==
  [iPoint \in Points |->
     IF iPoint \in OwnedPoints THEN 0 - (res[iPoint] + GetResTruncError(iRank))
     ELSE res[iPoint]]

\* LinSysRes[total_index] = - (LinSysRes[total_index] + local_Res_TruncError[iVar])
\* for iPoint < nPointDomain, LinSysRes[total_index] = 0.0 for the ghost points
ImplicitRightHandSide(res, iRank) ==
  [iPoint \in Points |->
     IF iPoint \in OwnedPoints THEN 0 - (res[iPoint] + GetResTruncError(iRank))
     ELSE 0]

\* ImplicitEuler_Iteration up to the solve: AddVal2Diag(iPoint, Delta) with
\* Delta = 1, the right hand side -(LinSysRes + truncation error), x = 0,
\* residual and solution zero at the ghost points
ImplicitEuler_Iteration(iRank) ==
  /\ pc[iRank] = "ImplicitEuler_Iteration"
  /\ IterLinSol' = [IterLinSol EXCEPT ![iRank] = 0]
  /\ Jacobian' = [Jacobian EXCEPT ![iRank][<<0, 0>>] = @ + 1]
  /\ LinSysRes' = [LinSysRes EXCEPT ![iRank] = ImplicitRightHandSide(@, iRank)]
  /\ LinSysSol' = [LinSysSol EXCEPT ![iRank] = ZeroPoints]
  /\ pc' = [pc EXCEPT ![iRank] = Following("ImplicitEuler_Iteration")]
  /\ UNCHANGED <<tne2Config, ExtIter, Solution, lin, IterLinSolver, chan,
                 sent, done, solAfter>>

\* the choice of preconditioner and the call of the solver.  For a kind
\* outside BuiltPreconditioners precond stays NULL and *precond is passed
\* to the solver: the process is killed, or the solver runs.
Solve(iRank) ==
  /\ pc[iRank] = "Solve"
  /\ IF Kind_Linear_Solver \notin KrylovSolvers
     THEN /\ pc' = [pc EXCEPT ![iRank] = Following("Krylov")]
          /\ lin' = [lin EXCEPT ![iRank] = [iter |-> 0, status |-> "NotCalled"]]
     ELSE \/ /\ pc' = [pc EXCEPT ![iRank] = Following("Solve")]
             /\ lin' = [lin EXCEPT ![iRank] =
                          [iter |-> 0,
                           status |-> KrylovStatus(0, Linear_Solver_Iter, linearSystem)]]
          \/ /\ precond = "NULL"
             /\ pc' = [pc EXCEPT ![iRank] = "Crashed"]
             /\ lin' = lin
  /\ UNCHANGED <<tne2Config, ExtIter, Solution, LinSysRes, LinSysSol, Jacobian,
                 IterLinSol, IterLinSolver, chan, sent, done, solAfter>>

\* one iteration of BCGSTAB / FGMRES: the iterate moves to the solution
KrylovIteration(iRank) ==
  /\ pc[iRank] = "Krylov"
  /\ lin[iRank].status = "Iterating"
  /\ lin' = [lin EXCEPT ![iRank] =
               [iter |-> @.iter + 1,
                status |-> KrylovStatus(@.iter + 1, Linear_Solver_Iter, linearSystem)]]
  /\ LinSysSol' = [LinSysSol EXCEPT ![iRank][0] = LinSysRes[iRank][0]]
  /\ UNCHANGED <<tne2Config, pc, ExtIter, Solution, LinSysRes, Jacobian,
                 IterLinSol, IterLinSolver, chan, sent, done, solAfter>>

\* the solver returns the number of iterations it made
KrylovReturn(iRank) ==
  /\ pc[iRank] = "Krylov"
  /\ lin[iRank].status \in {"Converged", "MaxIterReached", "Diverged"}
  /\ IterLinSol' = [IterLinSol EXCEPT ![iRank] = lin[iRank].iter]
  /\ pc' = [pc EXCEPT ![iRank] = Following("Krylov")]
  /\ UNCHANGED <<tne2Config, ExtIter, Solution, LinSysRes, LinSysSol, Jacobian,
                 lin, IterLinSolver, chan, sent, done, solAfter>>

\* SetIterLinSolver(IterLinSol), then the update
\*   if (!adjoint) node[iPoint]->AddSolution(iVar, relax*LinSysSol[...])
SetIterLinSolver(iRank) ==
  /\ pc[iRank] = "SetIterLinSolver"
  /\ IterLinSolver' = [IterLinSolver EXCEPT ![iRank] = IterLinSol[iRank]]
  /\ LET updated == IF adjoint THEN Solution[iRank][0]
                    ELSE Solution[iRank][0]
                           + Linear_Solver_Relax * LinSysSol[iRank][0]
     IN /\ Solution' = [Solution EXCEPT ![iRank][0] = updated]
        /\ solAfter' = [solAfter EXCEPT ![iRank] = Append(@, updated)]
  /\ pc' = [pc EXCEPT ![iRank] = Following("SetIterLinSolver")]
  /\ UNCHANGED <<tne2Config, ExtIter, LinSysRes, LinSysSol, Jacobian, lin,
                 IterLinSol, chan, sent, done>>

\* Buffer_Send_U[...] = node[iPoint]->GetSolution(iVar) for the vertices of
\* the send marker, which are owned points
Buffer_Send_U(iRank) == Solution[iRank][0]

\* Set_MPI_Solution up to the Sendrecv: the send buffer is filled and sent
Set_MPI_Solution(iRank) ==
  /\ pc[iRank] = "Set_MPI_Solution"
  /\ chan' = [chan EXCEPT ![iRank] = Append(@, Buffer_Send_U(iRank))]
  /\ sent' = [sent EXCEPT ![iRank] = Buffer_Send_U(iRank)]
  /\ pc' = [pc EXCEPT ![iRank] = Following("Set_MPI_Solution")]
  /\ UNCHANGED <<tne2Config, ExtIter, Solution, LinSysRes, LinSysSol, Jacobian,
                 lin, IterLinSol, IterLinSolver, done, solAfter>>

\* Set_MPI_Solution from the Sendrecv on: it returns when the neighbour's
\* message has arrived; the received values (rotation angles zero) are
\* stored at the halo point
Sendrecv(iRank) ==
  /\ pc[iRank] = "Sendrecv"
  /\ chan[Neighbour(iRank)] # <<>>
  /\ Solution' = [Solution EXCEPT ![iRank][1] = Head(chan[Neighbour(iRank)])]
  /\ chan' = [chan EXCEPT ![Neighbour(iRank)] = Tail(@)]
  /\ done' = [done EXCEPT ![iRank] = @ + 1]
  /\ pc' = [pc EXCEPT ![iRank] = Following("Sendrecv")]
  /\ UNCHANGED <<tne2Config, ExtIter, LinSysRes, LinSysSol, Jacobian, lin,
                 IterLinSol, IterLinSolver, sent, solAfter>>

\* SetResidual_RMS, and the time integration routine returns
SetResidual_RMS(iRank) ==
  /\ pc[iRank] = "SetResidual_RMS"
  /\ pc' = [pc EXCEPT ![iRank] = Following("SetResidual_RMS")]
  /\ UNCHANGED <<tne2Config, ExtIter, Solution, LinSysRes, LinSysSol, Jacobian,
                 lin, IterLinSol, IterLinSolver, chan, sent, done, solAfter>>

\* the next nonlinear iteration starts with Preprocessing
NextExtIter(iRank) ==
  /\ pc[iRank] = "Returned"
  /\ ExtIter[iRank] < MaxExtIter
  /\ ExtIter' = [ExtIter EXCEPT ![iRank] = @ + 1]
  /\ pc' = [pc EXCEPT ![iRank] = "Preprocessing"]
  /\ UNCHANGED <<tne2Config, Solution, LinSysRes, LinSysSol, Jacobian, lin,
                 IterLinSol, IterLinSolver, chan, sent, done, solAfter>>

\* ------------------------------------------------------------------------
\* CFEABoundVariable: boundary storage addressed through VertexMap
\* (SU2_CFD/include/variables/CFEABoundVariable.hpp)
\* ------------------------------------------------------------------------
BoundPoints == {0, 1}          \* iPoint in 0..nPoint-1
BoundVars   == {0, 1}          \* iVar in 0..nVar-1 of the variable
Loads       == {0, 1}          \* values kept in the boundary arrays
BoundForces == [BoundVars -> Loads]   \* val_surfForce / val_flowTraction

MappedGetters == {"Get_SurfaceLoad_Res", "Get_SurfaceLoad_Res_n",
                  "Get_FlowTraction", "Get_FlowTraction_n"}
MappedSetters == {"Add_SurfaceLoad_Res", "Set_SurfaceLoad_Res",
                  "Clear_SurfaceLoad_Res", "Set_FlowTraction",
                  "Add_FlowTraction", "Clear_FlowTraction"}
MappedAccessors == MappedGetters \cup MappedSetters
RawAccessors == {"RegisterFlowTraction", "ExtractFlowTraction_Sensitivity"}

NoBoundCall == [op |-> "none"]

\* Mat_t with nRow rows of nVar entries, all zero
ZeroBoundary(nRow) == [iVertex \in 0..(nRow - 1) |-> [iVar \in BoundVars |-> 0]]

BoundRows(M) == DOMAIN M

\* constructor: no point is a vertex, nothing is allocated
BoundInit ==
  /\ VertexMap = [iPoint \in BoundPoints |-> 0]
  /\ isAllocated = FALSE
  /\ FlowTraction = ZeroBoundary(0)
  /\ FlowTraction_n = ZeroBoundary(0)
  /\ Residual_Ext_Surf = ZeroBoundary(0)
  /\ Residual_Ext_Surf_n = ZeroBoundary(0)
  /\ bndCall = NoBoundCall
  /\ bndPc = "running"
  /\ statusChanged = FALSE

boundStorage == <<FlowTraction, FlowTraction_n, Residual_Ext_Surf,
                  Residual_Ext_Surf_n>>

\* bool(VertexMap(iPoint)) compared with unsigned(isVertex), both as numbers
StatusDiffersAsNumber(isVertex, iVertex) == (IF isVertex THEN 1 ELSE 0) # iVertex

\* isVertex != bool(VertexMap(iPoint))
StatusDiffers(isVertex, iVertex) == isVertex # (iVertex # 0)

Get_isVertex(iPoint) == VertexMap[iPoint] # 0

Set_isVertex(iPoint, isVertex) ==
  /\ bndPc = "running"
  /\ IF StatusDiffers(isVertex, VertexMap[iPoint])
       THEN /\ isAllocated' = FALSE
            /\ VertexMap' = [VertexMap EXCEPT
                               ![iPoint] = IF isVertex THEN 1 ELSE 0]
            /\ statusChanged' = TRUE
       ELSE UNCHANGED <<isAllocated, VertexMap, statusChanged>>
  /\ bndCall' = [op |-> "Set_isVertex", iPoint |-> iPoint, isVertex |-> isVertex]
  /\ UNCHANGED <<boundStorage, bndPc>>

\* number of vertices among the points 0..iPoint
VertexCount(iPoint) == Cardinality({jPoint \in BoundPoints :
                                      jPoint <= iPoint /\ VertexMap[jPoint] # 0})

nBoundPt == Cardinality({iPoint \in BoundPoints : VertexMap[iPoint] # 0})

\* numbers the vertices 1..nBoundPt in point order and sizes the arrays
AllocateBoundaryVariables ==
  /\ bndPc = "running"
  /\ IF isAllocated
       THEN UNCHANGED <<VertexMap, isAllocated, boundStorage>>
       ELSE /\ VertexMap' = [iPoint \in BoundPoints |->
                               IF VertexMap[iPoint] # 0
                                 THEN VertexCount(iPoint) ELSE 0]
            /\ FlowTraction' = ZeroBoundary(nBoundPt)
            /\ FlowTraction_n' = ZeroBoundary(nBoundPt)
            /\ Residual_Ext_Surf' = ZeroBoundary(nBoundPt)
            /\ Residual_Ext_Surf_n' = ZeroBoundary(nBoundPt)
            /\ isAllocated' = TRUE
  /\ statusChanged' = FALSE
  /\ bndCall' = [op |-> "AllocateBoundaryVariables"]
  /\ UNCHANGED bndPc

\* the row operations of the accessors
AddRow(M, iVertex, val) ==
  [M EXCEPT ![iVertex] = [iVar \in BoundVars |-> @[iVar] + val[iVar]]]
SetRow(M, iVertex, val) ==
  [M EXCEPT ![iVertex] = [iVar \in BoundVars |-> val[iVar]]]
SetEntry(M, iVertex, iVar, val) == [M EXCEPT ![iVertex][iVar] = val]
ClearEvery(M, iVertex) == [jVertex \in DOMAIN M |-> [iVar \in BoundVars |-> 0]]
ClearRow(M, iVertex) == [M EXCEPT ![iVertex] = [iVar \in BoundVars |-> 0]]

\* assert(isAllocated ...) of APPLY_VERTEXMAP fails: the process aborts
AssertionFails(op, iPoint, iVars) ==
  /\ bndPc' = "Aborted"
  /\ bndCall' = [op |-> op, iPoint |-> iPoint, iVars |-> iVars,
                 checked |-> TRUE, mapped |-> FALSE, rows |-> {},
                 outcome |-> "abort", ret |-> 0]
  /\ UNCHANGED <<VertexMap, isAllocated, boundStorage, statusChanged>>

\* APPLY_VERTEXMAP found VertexMap(iPoint) = 0 and returned the default
DefaultReturn(op, iPoint, iVars, default) ==
  /\ bndCall' = [op |-> op, iPoint |-> iPoint, iVars |-> iVars,
                 checked |-> TRUE, mapped |-> TRUE, rows |-> {},
                 outcome |-> "return", ret |-> default]
  /\ UNCHANGED <<VertexMap, isAllocated, boundStorage, statusChanged, bndPc>>

\* the body ran on row VertexMap(iPoint) - 1, entries iVars
MappedReturn(op, iPoint, iVars, ret) ==
  /\ bndCall' = [op |-> op, iPoint |-> iPoint, iVars |-> iVars,
                 checked |-> TRUE, mapped |-> TRUE,
                 rows |-> {VertexMap[iPoint] - 1},
                 outcome |-> "return", ret |-> ret]
  /\ UNCHANGED <<VertexMap, isAllocated, statusChanged, bndPc>>

\* a getter declared with APPLY_VERTEXMAP(0.0)
MappedGet(op, M, iPoint, iVar) ==
  /\ bndPc = "running"
  /\ IF ~isAllocated THEN AssertionFails(op, iPoint, {iVar})
     ELSE IF VertexMap[iPoint] = 0 THEN DefaultReturn(op, iPoint, {iVar}, 0)
     ELSE /\ MappedReturn(op, iPoint, {iVar}, M[VertexMap[iPoint] - 1][iVar])
          /\ UNCHANGED boundStorage

Get_SurfaceLoad_Res(iPoint, iVar) ==
  MappedGet("Get_SurfaceLoad_Res", Residual_Ext_Surf, iPoint, iVar)
Get_SurfaceLoad_Res_n(iPoint, iVar) ==
  MappedGet("Get_SurfaceLoad_Res_n", Residual_Ext_Surf_n, iPoint, iVar)
Get_FlowTraction(iPoint, iVar) ==
  MappedGet("Get_FlowTraction", FlowTraction, iPoint, iVar)
Get_FlowTraction_n(iPoint, iVar) ==
  MappedGet("Get_FlowTraction_n", FlowTraction_n, iPoint, iVar)

\* a void accessor on Residual_Ext_Surf, declared with APPLY_VERTEXMAP()
MappedSetResidual(op, iPoint, iVars, newResidual) ==
  /\ bndPc = "running"
  /\ IF ~isAllocated THEN AssertionFails(op, iPoint, iVars)
     ELSE IF VertexMap[iPoint] = 0 THEN DefaultReturn(op, iPoint, iVars, 0)
     ELSE /\ MappedReturn(op, iPoint, iVars, 0)
          /\ Residual_Ext_Surf' = newResidual
          /\ UNCHANGED <<FlowTraction, FlowTraction_n, Residual_Ext_Surf_n>>

\* a void accessor on FlowTraction, declared with APPLY_VERTEXMAP()
MappedSetTraction(op, iPoint, iVars, newTraction) ==
  /\ bndPc = "running"
  /\ IF ~isAllocated THEN AssertionFails(op, iPoint, iVars)
     ELSE IF VertexMap[iPoint] = 0 THEN DefaultReturn(op, iPoint, iVars, 0)
     ELSE /\ MappedReturn(op, iPoint, iVars, 0)
          /\ FlowTraction' = newTraction
          /\ UNCHANGED <<FlowTraction_n, Residual_Ext_Surf, Residual_Ext_Surf_n>>

\* the stored sums stay in Loads (the arrays hold doubles)
InLoads(M, iPoint, val) ==
  isAllocated /\ VertexMap[iPoint] # 0
    => \A iVar \in BoundVars : M[VertexMap[iPoint] - 1][iVar] + val[iVar] \in Loads

Add_SurfaceLoad_Res(iPoint, val_surfForce) ==
  /\ InLoads(Residual_Ext_Surf, iPoint, val_surfForce)
  /\ MappedSetResidual("Add_SurfaceLoad_Res", iPoint, BoundVars,
       AddRow(Residual_Ext_Surf, VertexMap[iPoint] - 1, val_surfForce))

Set_SurfaceLoad_Res(iPoint, iVar, val_surfForce) ==
  MappedSetResidual("Set_SurfaceLoad_Res", iPoint, {iVar},
    SetEntry(Residual_Ext_Surf, VertexMap[iPoint] - 1, iVar, val_surfForce))

Clear_SurfaceLoad_Res(iPoint) ==
  MappedSetResidual("Clear_SurfaceLoad_Res", iPoint, BoundVars,
    ClearRow(Residual_Ext_Surf, VertexMap[iPoint] - 1))

Set_FlowTraction(iPoint, val_flowTraction) ==
  MappedSetTraction("Set_FlowTraction", iPoint, BoundVars,
    SetRow(FlowTraction, VertexMap[iPoint] - 1, val_flowTraction))

Add_FlowTraction(iPoint, val_flowTraction) ==
  /\ InLoads(FlowTraction, iPoint, val_flowTraction)
  /\ MappedSetTraction("Add_FlowTraction", iPoint, BoundVars,
       AddRow(FlowTraction, VertexMap[iPoint] - 1, val_flowTraction))

Clear_FlowTraction(iPoint) ==
  MappedSetTraction("Clear_FlowTraction", iPoint, BoundVars,
    ClearRow(FlowTraction, VertexMap[iPoint] - 1))

\* FlowTraction(iPoint, iVar) with the point index itself: a row of the array
\* when iPoint < nBoundPt, memory outside the array otherwise, where the call
\* may abort or go on with whatever it finds
RawOutcomes(iPoint) ==
  IF iPoint \in BoundRows(FlowTraction) THEN {"return"} ELSE {"return", "abort"}

RawReturns(iPoint, outcome) ==
  IF iPoint \in BoundRows(FlowTraction) \/ outcome = "abort" THEN {0} ELSE Loads

RawAccess(op, iPoint, iVars, outcome, ret) ==
  /\ bndPc = "running"
  /\ bndPc' = IF outcome = "abort" THEN "Aborted" ELSE "running"
  /\ bndCall' = [op |-> op, iPoint |-> iPoint, iVars |-> iVars,
                 checked |-> FALSE, mapped |-> FALSE, rows |-> {iPoint},
                 outcome |-> outcome, ret |-> ret]
  /\ UNCHANGED <<VertexMap, isAllocated, boundStorage, statusChanged>>

\* AD::RegisterInput(FlowTraction(iPoint,iVar)) for every iVar
RegisterFlowTraction(iPoint) ==
  \E outcome \in RawOutcomes(iPoint) :
    RawAccess("RegisterFlowTraction", iPoint, BoundVars, outcome, 0)

\* SU2_TYPE::GetDerivative(FlowTraction(iPoint,iDim)): 0 without a tape
ExtractFlowTraction_Sensitivity(iPoint, iDim) ==
  \E outcome \in RawOutcomes(iPoint) : \E ret \in RawReturns(iPoint, outcome) :
    RawAccess("ExtractFlowTraction_Sensitivity", iPoint, {iDim}, outcome, ret)

BoundIdle ==
  /\ VertexMap = <<>> /\ isAllocated = FALSE /\ FlowTraction = <<>>
  /\ FlowTraction_n = <<>> /\ Residual_Ext_Surf = <<>>
  /\ Residual_Ext_Surf_n = <<>> /\ bndCall = NoBoundCall /\ bndPc = "idle"
  /\ statusChanged = FALSE

\* ------------------------------------------------------------------------
\* CTecplotFileWriter::Write_Data on tecSize ranks, built with HAVE_MPI
\* (SU2_CFD/src/output/filewriter/CTecplotFileWriter.cpp)
\* The file is the sequence of rows on disk; every rank has a stream buffer
\* whose content reaches the file at a flush, at endl, at close, or whenever
\* the stream decides to empty it.
\* ------------------------------------------------------------------------
MASTER_NODE == 0
TecRanks == 0..(tecSize - 1)
TecCounts == {0, 2}            \* GetnPoints() and the element count of a rank

HeaderRow == [kind |-> "header", rank |-> MASTER_NODE, index |-> 0]
NodeRow(rank, iPoint) == [kind |-> "node", rank |-> rank, index |-> iPoint]
ConnRow(rank, iElem)  == [kind |-> "conn", rank |-> rank, index |-> iElem]

TecInit ==
  /\ tecSize \in 1..MaxTecSize
  /\ connectivitySorted \in BOOLEAN
  /\ nPoints \in [TecRanks -> TecCounts]
  /\ nParallel \in [TecRanks -> TecCounts]
  /\ tecPc = [rank \in TecRanks |-> "Write_Data"]
  /\ tecAfter = [rank \in TecRanks |-> "none"]
  /\ iProcessorTec = [rank \in TecRanks |-> 0]
  /\ iRow = [rank \in TecRanks |-> 0]
  /\ Tecplot_File = [rank \in TecRanks |-> "closed"]
  /\ tecBuffer = [rank \in TecRanks |-> <<>>]
  /\ tecDisk = <<>>
  /\ nBarrier = [rank \in TecRanks |-> 0]

tecConfig == <<tecSize, connectivitySorted, nPoints, nParallel>>

\* if (!dataSorter->GetConnectivitySorted()) SU2_MPI::Error(...)
GetConnectivitySorted(rank) ==
  /\ tecPc[rank] = "Write_Data"
  /\ tecPc' = [tecPc EXCEPT ![rank] =
                 IF connectivitySorted THEN "Header" ELSE "Error"]
  /\ UNCHANGED <<tecConfig, tecAfter, iProcessorTec, iRow, Tecplot_File,
                 tecBuffer, tecDisk, nBarrier>>

\* SU2_MPI::Barrier(MPI_COMM_WORLD): the rank enters the barrier and goes on
\* at the statement after it once the barrier lets it through
Barrier(rank, after) ==
  /\ nBarrier' = [nBarrier EXCEPT ![rank] = @ + 1]
  /\ tecPc' = [tecPc EXCEPT ![rank] = "InBarrier"]
  /\ tecAfter' = [tecAfter EXCEPT ![rank] = after]

\* if (rank == MASTER_NODE) Tecplot_File.open(fileName, ios::out): truncates
OpenHeader(rank) ==
  /\ tecPc[rank] = "Header"
  /\ IF rank = MASTER_NODE
       THEN /\ Tecplot_File' = [Tecplot_File EXCEPT ![rank] = "out"]
            /\ tecDisk' = <<>>
            /\ tecPc' = [tecPc EXCEPT ![rank] = "HeaderWrite"]
            /\ UNCHANGED <<tecAfter, nBarrier>>
       ELSE /\ Barrier(rank, "Open")
            /\ UNCHANGED <<Tecplot_File, tecDisk>>
  /\ UNCHANGED <<tecConfig, iProcessorTec, iRow, tecBuffer>>

\* title, variable names and zone line go to the stream
WriteHeader(rank) ==
  /\ tecPc[rank] = "HeaderWrite"
  /\ tecBuffer' = [tecBuffer EXCEPT ![rank] = Append(@, HeaderRow)]
  /\ tecPc' = [tecPc EXCEPT ![rank] = "HeaderClose"]
  /\ UNCHANGED <<tecConfig, tecAfter, iProcessorTec, iRow, Tecplot_File,
                 tecDisk, nBarrier>>

\* Tecplot_File.close() of the master: empties the buffer into the file
CloseHeader(rank) ==
  /\ tecPc[rank] = "HeaderClose"
  /\ tecDisk' = tecDisk \o tecBuffer[rank]
  /\ tecBuffer' = [tecBuffer EXCEPT ![rank] = <<>>]
  /\ Tecplot_File' = [Tecplot_File EXCEPT ![rank] = "closed"]
  /\ Barrier(rank, "Open")
  /\ UNCHANGED <<tecConfig, iProcessorTec, iRow>>

\* for (iProcessor = 0; iProcessor < size; iProcessor++)
LoopTestTec(iProc) == iProc < tecSize

\* a barrier lets everybody through
BarrierOpen(rank) == TRUE

\* a barrier lets a rank through once every rank has entered it
BarrierComplete(rank) == \A other \in TecRanks : nBarrier[other] >= nBarrier[rank]

\* the rank returns from the barrier; at the end of a loop body the loop
\* counter is incremented (iProcessor++), and when that ends the node loop the
\* connectivity loop starts with iProcessor = 0
BarrierReturn(rank) ==
  /\ tecPc[rank] = "InBarrier"
  /\ BarrierComplete(rank)
  /\ IF tecAfter[rank] = "Open"
       THEN /\ tecPc' = [tecPc EXCEPT ![rank] = "Open"]
            /\ UNCHANGED <<iProcessorTec, iRow>>
       ELSE IF tecAfter[rank] = "NodeLoop" /\ ~LoopTestTec(iProcessorTec[rank] + 1)
       THEN /\ tecPc' = [tecPc EXCEPT ![rank] = "ConnLoop"]
            /\ iProcessorTec' = [iProcessorTec EXCEPT ![rank] = 0]
            /\ iRow' = [iRow EXCEPT ![rank] = 0]
       ELSE /\ tecPc' = [tecPc EXCEPT ![rank] = tecAfter[rank]]
            /\ iProcessorTec' = [iProcessorTec EXCEPT ![rank] = @ + 1]
            /\ UNCHANGED iRow
  /\ UNCHANGED <<tecConfig, tecAfter, Tecplot_File, tecBuffer, tecDisk, nBarrier>>

\* Tecplot_File.open(fileName, ios::out | ios::app); first loop starts
OpenAppend(rank) ==
  /\ tecPc[rank] = "Open"
  /\ Tecplot_File' = [Tecplot_File EXCEPT ![rank] = "app"]
  /\ iProcessorTec' = [iProcessorTec EXCEPT ![rank] = 0]
  /\ iRow' = [iRow EXCEPT ![rank] = 0]
  /\ tecPc' = [tecPc EXCEPT ![rank] = "NodeLoop"]
  /\ UNCHANGED <<tecConfig, tecAfter, tecBuffer, tecDisk, nBarrier>>

\* if (rank == iProcessor)
IsTurn(rank) == rank = iProcessorTec[rank]

\* one node row of the rank's turn, ended by endl, which flushes the stream
WriteNodeRow(rank) ==
  /\ tecPc[rank] = "NodeLoop" /\ LoopTestTec(iProcessorTec[rank]) /\ IsTurn(rank)
  /\ iRow[rank] < nPoints[rank]
  /\ tecDisk' = (tecDisk \o tecBuffer[rank]) \o <<NodeRow(rank, iRow[rank])>>
  /\ tecBuffer' = [tecBuffer EXCEPT ![rank] = <<>>]
  /\ iRow' = [iRow EXCEPT ![rank] = @ + 1]
  /\ UNCHANGED <<tecConfig, tecAfter, iProcessorTec, Tecplot_File, tecPc, nBarrier>>

\* one element row of the rank's turn, ended by "\n": stays in the stream
WriteConnRow(rank) ==
  /\ tecPc[rank] = "ConnLoop" /\ LoopTestTec(iProcessorTec[rank]) /\ IsTurn(rank)
  /\ iRow[rank] < nParallel[rank]
  /\ tecBuffer' = [tecBuffer EXCEPT ![rank] = Append(@, ConnRow(rank, iRow[rank]))]
  /\ iRow' = [iRow EXCEPT ![rank] = @ + 1]
  /\ UNCHANGED <<tecConfig, tecAfter, iProcessorTec, Tecplot_File, tecPc,
                 tecDisk, nBarrier>>

\* the stream empties a buffer that holds rows on its own
BufferSpill(rank) ==
  /\ Tecplot_File[rank] # "closed" /\ tecBuffer[rank] # <<>>
  /\ tecPc[rank] \in {"NodeLoop", "ConnLoop"}
  /\ tecDisk' = tecDisk \o tecBuffer[rank]
  /\ tecBuffer' = [tecBuffer EXCEPT ![rank] = <<>>]
  /\ UNCHANGED <<tecConfig, tecAfter, iProcessorTec, iRow, Tecplot_File, tecPc,
                 nBarrier>>

\* rows of the turn are written, or it is not the rank's turn
TurnOver(rank, nRow) == ~IsTurn(rank) \/ iRow[rank] >= nRow[rank]

\* Tecplot_File.flush() at the end of a loop body and the barrier after it
Flush(rank) ==
  /\ tecPc[rank] \in {"NodeLoop", "ConnLoop"} /\ LoopTestTec(iProcessorTec[rank])
  /\ TurnOver(rank, IF tecPc[rank] = "NodeLoop" THEN nPoints ELSE nParallel)
  /\ tecDisk' = tecDisk \o tecBuffer[rank]
  /\ tecBuffer' = [tecBuffer EXCEPT ![rank] = <<>>]
  /\ Barrier(rank, tecPc[rank])
  /\ UNCHANGED <<tecConfig, iProcessorTec, iRow, Tecplot_File>>

\* the connectivity loop is over: Tecplot_File.close()
CloseFile(rank) ==
  /\ tecPc[rank] = "ConnLoop" /\ ~LoopTestTec(iProcessorTec[rank])
  /\ tecDisk' = tecDisk \o tecBuffer[rank]
  /\ tecBuffer' = [tecBuffer EXCEPT ![rank] = <<>>]
  /\ Tecplot_File' = [Tecplot_File EXCEPT ![rank] = "closed"]
  /\ tecPc' = [tecPc EXCEPT ![rank] = "Done"]
  /\ UNCHANGED <<tecConfig, tecAfter, iProcessorTec, iRow, nBarrier>>

TecIdle ==
  /\ tecSize = 0 /\ connectivitySorted = FALSE /\ nPoints = <<>>
  /\ nParallel = <<>> /\ tecPc = <<>> /\ tecAfter = <<>> /\ iProcessorTec = <<>>
  /\ iRow = <<>> /\ Tecplot_File = <<>> /\ tecBuffer = <<>> /\ tecDisk = <<>>
  /\ nBarrier = <<>>

\* =========================================================================
\* The edge loops of Centered_Residual, Upwind_Residual (CTNE2EulerSolver)
\* and Viscous_Residual (CTNE2NSSolver) on a mesh of three points
\* =========================================================================

EdgePoints == {0, 1, 2}

\* geometry->edge[iEdge]: GetNode(0) and GetNode(1)
edge == << <<0, 1>>, <<1, 2>>, <<0, 2>> >>
nEdge == Len(edge)

\* what numerics->ComputeResidual hands back for one edge
EdgeFluxes ==
  { [Res_Conv |-> 1, Res_Visc |-> 2, Jacobian_i |-> 1, Jacobian_j |-> 0 - 2],
    [Res_Conv |-> 0 - 3, Res_Visc |-> 1, Jacobian_i |-> 2, Jacobian_j |-> 3] }

ResidualRoutines == {"Centered_Residual", "Upwind_Residual", "Viscous_Residual"}

\* LinSysRes and Jacobian as a previous iteration may have left them
LeftResiduals == { [iPoint \in EdgePoints |-> 0], [iPoint \in EdgePoints |-> iPoint + 1] }
LeftJacobians == { [ij \in EdgePoints \X EdgePoints |-> 0],
                   [ij \in EdgePoints \X EdgePoints |-> 1] }

EdgeInit ==
  /\ edgeImplicit \in BOOLEAN
  /\ edgeLinSysRes \in LeftResiduals
  /\ edgeJacobian \in LeftJacobians
  /\ resPc = "Preprocessing"
  /\ iEdge = 0
  /\ resTrace = <<>>

\* Centered_Residual: LinSysRes.AddBlock(iPoint, Res_Conv);
\* SubtractBlock(jPoint, Res_Conv); AddBlock(iPoint, Res_Visc);
\* SubtractBlock(jPoint, Res_Visc)
CenteredResidual(res, iPoint, jPoint, flux) ==
  [res EXCEPT ![iPoint] = @ + flux.Res_Conv, ![jPoint] = @ - flux.Res_Conv,
              ![iPoint] = @ + flux.Res_Visc, ![jPoint] = @ - flux.Res_Visc]

\* Centered_Residual, if (implicit): Jacobian.AddBlock(i,i,Jacobian_i);
\* AddBlock(i,j,Jacobian_j); SubtractBlock(j,i,Jacobian_i);
\* SubtractBlock(j,j,Jacobian_j)
CenteredJacobian(jac, iPoint, jPoint, flux) ==
  [jac EXCEPT ![<<iPoint, iPoint>>] = @ + flux.Jacobian_i,
              ![<<iPoint, jPoint>>] = @ + flux.Jacobian_j,
              ![<<jPoint, iPoint>>] = @ - flux.Jacobian_i,
              ![<<jPoint, jPoint>>] = @ - flux.Jacobian_j]

\* Upwind_Residual: LinSysRes.AddBlock(iPoint, Res_Conv);
\* SubtractBlock(jPoint, Res_Conv)
UpwindEdgeResidual(res, iPoint, jPoint, flux) ==
  [res EXCEPT ![iPoint] = @ + flux.Res_Conv, ![jPoint] = @ - flux.Res_Conv]

\* Upwind_Residual, if (implicit): the same four block updates
UpwindEdgeJacobian(jac, iPoint, jPoint, flux) ==
  [jac EXCEPT ![<<iPoint, iPoint>>] = @ + flux.Jacobian_i,
              ![<<iPoint, jPoint>>] = @ + flux.Jacobian_j,
              ![<<jPoint, iPoint>>] = @ - flux.Jacobian_i,
              ![<<jPoint, jPoint>>] = @ - flux.Jacobian_j]

ViscousResidualAddBoth(res, iPoint, jPoint, flux) ==
  [res EXCEPT ![iPoint] = @ + flux.Res_Visc, ![jPoint] = @ + flux.Res_Visc]

\* Viscous_Residual: LinSysRes.SubtractBlock(iPoint, Res_Visc);
\* AddBlock(jPoint, Res_Visc)
ViscousResidual(res, iPoint, jPoint, flux) ==
  [res EXCEPT ![iPoint] = @ - flux.Res_Visc, ![jPoint] = @ + flux.Res_Visc]

\* Viscous_Residual, if (implicit): Jacobian.SubtractBlock(i,i,Jacobian_i);
\* SubtractBlock(i,j,Jacobian_j); AddBlock(j,i,Jacobian_i);
\* AddBlock(j,j,Jacobian_j)
ViscousJacobian(jac, iPoint, jPoint, flux) ==
  [jac EXCEPT ![<<iPoint, iPoint>>] = @ - flux.Jacobian_i,
              ![<<iPoint, jPoint>>] = @ - flux.Jacobian_j,
              ![<<jPoint, iPoint>>] = @ + flux.Jacobian_i,
              ![<<jPoint, jPoint>>] = @ + flux.Jacobian_j]

\* Preprocessing: LinSysRes.SetBlock_Zero(iPoint) for every point;
\* if (implicit) Jacobian.SetValZero()
EdgePreprocessing ==
  /\ resPc = "Preprocessing"
  /\ edgeLinSysRes' = [iPoint \in EdgePoints |-> 0]
  /\ edgeJacobian' = IF edgeImplicit THEN [ij \in EdgePoints \X EdgePoints |-> 0]
                     ELSE edgeJacobian
  /\ resPc' = "Idle"
  /\ UNCHANGED <<edgeImplicit, iEdge, resTrace>>

\* a residual routine is entered: iEdge = 0
BeginResidual(routine) ==
  /\ resPc = "Idle"
  /\ Len(resTrace) < MaxResCalls
  /\ resPc' = routine
  /\ iEdge' = 0
  /\ resTrace' = Append(resTrace, routine)
  /\ UNCHANGED <<edgeImplicit, edgeLinSysRes, edgeJacobian>>

\* one pass of the loop for (iEdge = 0; iEdge < geometry->GetnEdge(); iEdge++)
EdgeStep(routine, res, jac) ==
  /\ resPc = routine
  /\ iEdge < nEdge
  /\ edgeLinSysRes' = res
  /\ edgeJacobian' = IF edgeImplicit THEN jac ELSE edgeJacobian
  /\ iEdge' = iEdge + 1
  /\ UNCHANGED <<edgeImplicit, resPc, resTrace>>

Centered_Residual(flux) ==
  LET iPoint == edge[iEdge + 1][1]
      jPoint == edge[iEdge + 1][2]
  IN EdgeStep("Centered_Residual",
              CenteredResidual(edgeLinSysRes, iPoint, jPoint, flux),
              CenteredJacobian(edgeJacobian, iPoint, jPoint, flux))

Upwind_ResidualEdge(flux) ==
  LET iPoint == edge[iEdge + 1][1]
      jPoint == edge[iEdge + 1][2]
  IN EdgeStep("Upwind_Residual",
              UpwindEdgeResidual(edgeLinSysRes, iPoint, jPoint, flux),
              UpwindEdgeJacobian(edgeJacobian, iPoint, jPoint, flux))

Viscous_Residual(flux) ==
  LET iPoint == edge[iEdge + 1][1]
      jPoint == edge[iEdge + 1][2]
  IN EdgeStep("Viscous_Residual",
              ViscousResidual(edgeLinSysRes, iPoint, jPoint, flux),
              ViscousJacobian(edgeJacobian, iPoint, jPoint, flux))

\* the loop is over: the routine returns
EndResidual ==
  /\ resPc \in ResidualRoutines
  /\ iEdge = nEdge
  /\ resPc' = "Idle"
  /\ UNCHANGED <<edgeImplicit, edgeLinSysRes, edgeJacobian, iEdge, resTrace>>

EdgeIdle ==
  /\ edgeImplicit = FALSE /\ edgeLinSysRes = <<>> /\ edgeJacobian = <<>>
  /\ resPc = "none" /\ iEdge = 0 /\ resTrace = <<>>

ExtIdle == BoundIdle /\ TecIdle /\ EdgeIdle

FsiIdle ==
  /\ nFSIIter = 0 /\ iFSIIter = 0 /\ fsiPc = "idle" /\ Convergence_FSI = FALSE
  /\ fsiTrace = <<>> /\ fsiMonitor = <<>>

Tne2Idle ==
  /\ adjoint = FALSE /\ implicit = FALSE
  /\ Kind_Linear_Solver = "none" /\ Kind_Linear_Solver_Prec = "none"
  /\ Linear_Solver_Iter = 0 /\ linearSystem = <<>>
  /\ pc = <<>> /\ ExtIter = <<>> /\ Solution = <<>> /\ LinSysRes = <<>>
  /\ LinSysSol = <<>> /\ Jacobian = <<>> /\ lin = <<>> /\ IterLinSol = <<>>
  /\ IterLinSolver = <<>> /\ chan = <<>> /\ sent = <<>> /\ done = <<>>
  /\ solAfter = <<>>

MatIdle ==
  /\ row_ptr = <<>> /\ col_ind = <<>> /\ dia_ptr = <<>> /\ dia_ptr_ilu = <<>>
  /\ matrix = <<>> /\ vec = <<>> /\ prod_row_vector = <<>> /\ block = <<>>
  /\ rhs = <<>> /\ invBlock = <<>> /\ matCall = NoMatCall /\ nMatCalls = 0

PartIdle ==
  /\ val_global_count = 0 /\ val_offset = 0 /\ isDisjoint = FALSE /\ size = 1
  /\ firstIndex = <<>> /\ lastIndex = <<>> /\ sizeOnRank = <<>>
  /\ cumulativeSizeBeforeRank = <<>> /\ lookup = NoLookup

IluIdle ==
  /\ nVar = 0 /\ nEqn = 0 /\ row_ptr_ilu = <<>> /\ col_ind_ilu = <<>>
  /\ ILU_matrix = <<>> /\ iluCall = [op |-> "none"]

KernIdle ==
  /\ kN = 0 /\ kMatrix = <<>> /\ kVector = <<>> /\ kProduct = <<>>
  /\ kPrior = <<>> /\ kCalls = <<>>

PartitionerInit == PartInit /\ IluIdle /\ KernIdle /\ MatIdle /\ Tne2Idle /\ FsiIdle /\ ExtIdle

PartitionerNext ==
  \E val_index \in 0..MaxGlobal :
    GetRankContainingIndex(val_index) /\ UNCHANGED notPart

SpecPartitioner == PartitionerInit /\ [][PartitionerNext]_vars

ILUInit == IluInit /\ PartIdle /\ KernIdle /\ MatIdle /\ Tne2Idle /\ FsiIdle /\ ExtIdle

ILURows == 0..(nRowsILU - 1)

ILUNext ==
  \/ \E block_i, block_j \in ILURows :
       CallGetBlock_ILUMatrix(block_i, block_j) /\ UNCHANGED notIlu
  \/ \E block_i, block_j \in ILURows : \E val_block \in TestBlocks(nVar * nEqn) :
       CallSetBlock_ILUMatrix(block_i, block_j, val_block)
         /\ UNCHANGED notIlu
  \/ \E block_i, block_j \in ILURows : \E val_block \in TestBlocks(nVar * nEqn) :
       CallSetBlockTransposed_ILUMatrix(block_i, block_j, val_block)
         /\ UNCHANGED notIlu

SpecILU == ILUInit /\ [][ILUNext]_vars

KernelInit == KernInit /\ PartIdle /\ IluIdle /\ MatIdle /\ Tne2Idle /\ FsiIdle /\ ExtIdle

KernelNext ==
  \/ CallMatrixVectorProduct /\ UNCHANGED notKern
  \/ CallMatrixVectorProductAdd /\ UNCHANGED notKern
  \/ CallMatrixVectorProductSub /\ UNCHANGED notKern
  \/ CallMatrixVectorProductTransp /\ UNCHANGED notKern

SpecKernel == KernelInit /\ [][KernelNext]_vars

notMat == <<partVars, kernVars, nMatCalls, tne2Vars, fsiVars, extVars>>

RowProdSpecInit == RowProdInit /\ PartIdle /\ KernIdle /\ Tne2Idle /\ FsiIdle /\ ExtIdle

RowProdNext ==
  \/ \E row_i \in Rows : CallUpperProduct(row_i) /\ UNCHANGED notMat
  \/ \E row_i \in Rows : CallLowerProduct(row_i) /\ UNCHANGED notMat
  \/ \E row_i \in Rows : CallDiagonalProduct(row_i) /\ UNCHANGED notMat

SpecRowProd == RowProdSpecInit /\ [][RowProdNext]_vars

DiagSpecInit == DiagInit /\ PartIdle /\ KernIdle /\ Tne2Idle /\ FsiIdle /\ ExtIdle

DiagNext ==
  \/ \E block_i \in Rows : \E rhs_in \in VectorFills(nVar) : \E transposed \in BOOLEAN :
       CallGauss_Elimination(block_i, rhs_in, transposed) /\ UNCHANGED notMat
  \/ \E block_i \in Rows : \E transpose \in BOOLEAN :
       CallInverseDiagonalBlock(block_i, transpose) /\ UNCHANGED notMat
  \/ \E block_i \in Rows :
       CallInverseDiagonalBlock_ILUMatrix(block_i) /\ UNCHANGED notMat

SpecDiag == DiagSpecInit /\ [][DiagNext]_vars

\* ---- every operation on one matrix with its ILU copy -------------------
matState == <<row_ptr, col_ind, dia_ptr, dia_ptr_ilu, matrix, vec,
              prod_row_vector, block, rhs, invBlock, matCall>>

\* one more operation of the sequence
NextCall == nMatCalls < MaxMatCalls /\ nMatCalls' = nMatCalls + 1

\* the matrix whose rows are stored out of column order; the kernels are
\* applied to its first diagonal block and the first block of the vector
MatrixInit ==
  /\ DiagInit
  /\ \E row_i \in Rows : dia_ptr[row_i] + 1 < row_ptr[row_i + 1]
                          /\ col_ind[dia_ptr[row_i] + 1] < row_i
  /\ kN = nVar
  /\ kMatrix = DiagonalBlock(0)
  /\ kVector = Slice(vec, 0, nVar)
  /\ kProduct = ZeroVector(nVar)
  /\ kPrior = <<>> /\ kCalls = <<>>
  /\ PartIdle /\ Tne2Idle /\ FsiIdle /\ ExtIdle

iluStep == <<partVars, kernVars, matState, tne2Vars, fsiVars, extVars>>
kernStep == <<partVars, iluVars, matState, tne2Vars, fsiVars, extVars>>
matStep == <<partVars, tne2Vars, fsiVars, extVars>>

MatrixNext ==
  \/ \E block_i, block_j \in Rows :
       NextCall /\ CallGetBlock_ILUMatrix(block_i, block_j) /\ UNCHANGED iluStep
  \/ \E block_i, block_j \in Rows : \E val_block \in TestBlocks(nVar * nEqn) :
       NextCall /\ CallSetBlock_ILUMatrix(block_i, block_j, val_block)
         /\ UNCHANGED iluStep
  \/ \E block_i, block_j \in Rows : \E val_block \in TestBlocks(nVar * nEqn) :
       NextCall /\ CallSetBlockTransposed_ILUMatrix(block_i, block_j, val_block)
         /\ UNCHANGED iluStep
  \/ NextCall /\ CallMatrixVectorProduct /\ UNCHANGED kernStep
  \/ NextCall /\ CallMatrixVectorProductAdd /\ UNCHANGED kernStep
  \/ NextCall /\ CallMatrixVectorProductSub /\ UNCHANGED kernStep
  \/ NextCall /\ CallMatrixVectorProductTransp /\ UNCHANGED kernStep
  \/ \E block_i \in Rows : \E rhs_in \in VectorFills(nVar) : \E transposed \in BOOLEAN :
       NextCall /\ CallGauss_Elimination(block_i, rhs_in, transposed)
         /\ UNCHANGED <<matStep, kernVars>>
  \/ \E block_i \in Rows : \E transpose \in BOOLEAN :
       NextCall /\ CallInverseDiagonalBlock(block_i, transpose)
         /\ UNCHANGED <<matStep, kernVars>>
  \/ \E block_i \in Rows :
       NextCall /\ CallInverseDiagonalBlock_ILUMatrix(block_i)
         /\ UNCHANGED <<matStep, kernVars>>
  \/ \E row_i \in Rows :
       NextCall /\ CallUpperProduct(row_i) /\ UNCHANGED <<matStep, kernVars>>
  \/ \E row_i \in Rows :
       NextCall /\ CallLowerProduct(row_i) /\ UNCHANGED <<matStep, kernVars>>
  \/ \E row_i \in Rows :
       NextCall /\ CallDiagonalProduct(row_i) /\ UNCHANGED <<matStep, kernVars>>

SpecMatrix == MatrixInit /\ [][MatrixNext]_vars

FSISpecInit == FsiInit /\ PartIdle /\ IluIdle /\ KernIdle /\ MatIdle /\ Tne2Idle /\ ExtIdle

FSINext ==
  \/ FSI_Disp_Predictor /\ UNCHANGED notFsi
  \/ FSI_Disp_Transfer /\ UNCHANGED notFsi
  \/ Flow_Subiteration /\ UNCHANGED notFsi
  \/ FSI_Load_Transfer /\ UNCHANGED notFsi
  \/ FEA_Subiteration /\ UNCHANGED notFsi
  \/ FSI_Disp_Relaxation /\ UNCHANGED notFsi
  \/ Convergence_Monitoring_FSI /\ UNCHANGED notFsi
  \/ Flow_Update /\ UNCHANGED notFsi
  \/ FEA_Update /\ UNCHANGED notFsi
  \/ SetConvergence_FSI /\ UNCHANGED notFsi

SpecFSI == FSISpecInit /\ [][FSINext]_vars

TNE2SpecInit == Tne2Init /\ PartIdle /\ IluIdle /\ KernIdle /\ MatIdle /\ FsiIdle /\ ExtIdle

TNE2Next ==
  \/ \E iRank \in TNE2Ranks : Preprocessing(iRank) /\ UNCHANGED notTne2
  \/ \E iRank \in TNE2Ranks : Upwind_Residual(iRank) /\ UNCHANGED notTne2
  \/ \E iRank \in TNE2Ranks : Source_Residual(iRank) /\ UNCHANGED notTne2
  \/ \E iRank \in TNE2Ranks : ExplicitEuler_Iteration(iRank) /\ UNCHANGED notTne2
  \/ \E iRank \in TNE2Ranks : ImplicitEuler_Iteration(iRank) /\ UNCHANGED notTne2
  \/ \E iRank \in TNE2Ranks : Solve(iRank) /\ UNCHANGED notTne2
  \/ \E iRank \in TNE2Ranks : KrylovIteration(iRank) /\ UNCHANGED notTne2
  \/ \E iRank \in TNE2Ranks : KrylovReturn(iRank) /\ UNCHANGED notTne2
  \/ \E iRank \in TNE2Ranks : SetIterLinSolver(iRank) /\ UNCHANGED notTne2
  \/ \E iRank \in TNE2Ranks : Set_MPI_Solution(iRank) /\ UNCHANGED notTne2
  \/ \E iRank \in TNE2Ranks : Sendrecv(iRank) /\ UNCHANGED notTne2
  \/ \E iRank \in TNE2Ranks : SetResidual_RMS(iRank) /\ UNCHANGED notTne2
  \/ \E iRank \in TNE2Ranks : NextExtIter(iRank) /\ UNCHANGED notTne2

SpecTNE2 == TNE2SpecInit /\ [][TNE2Next]_vars

\* every rank keeps running while it can take a step
SpecTNE2Fair == SpecTNE2 /\ WF_vars(TNE2Next)

\* ---- CFEABoundVariable: any sequence of calls after construction ---------
\* ---- the edge loops of the residual routines
EdgeSpecInit ==
  /\ EdgeInit /\ BoundIdle /\ TecIdle
  /\ PartIdle /\ IluIdle /\ KernIdle /\ MatIdle /\ Tne2Idle /\ FsiIdle

EdgeNext ==
  \/ EdgePreprocessing /\ UNCHANGED notEdge
  \/ \E routine \in ResidualRoutines : BeginResidual(routine) /\ UNCHANGED notEdge
  \/ \E flux \in EdgeFluxes : Centered_Residual(flux) /\ UNCHANGED notEdge
  \/ \E flux \in EdgeFluxes : Upwind_ResidualEdge(flux) /\ UNCHANGED notEdge
  \/ \E flux \in EdgeFluxes : Viscous_Residual(flux) /\ UNCHANGED notEdge
  \/ EndResidual /\ UNCHANGED notEdge

SpecEdge == EdgeSpecInit /\ [][EdgeNext]_vars

BoundSpecInit ==
  /\ BoundInit /\ PartIdle /\ IluIdle /\ KernIdle /\ MatIdle /\ Tne2Idle
  /\ FsiIdle /\ TecIdle /\ EdgeIdle

BoundNext ==
  \/ \E iPoint \in BoundPoints : \E isVertex \in BOOLEAN :
       Set_isVertex(iPoint, isVertex) /\ UNCHANGED notBound
  \/ AllocateBoundaryVariables /\ UNCHANGED notBound
  \/ \E iPoint \in BoundPoints : \E val_surfForce \in BoundForces :
       Add_SurfaceLoad_Res(iPoint, val_surfForce) /\ UNCHANGED notBound
  \/ \E iPoint \in BoundPoints : \E iVar \in BoundVars : \E val_surfForce \in Loads :
       Set_SurfaceLoad_Res(iPoint, iVar, val_surfForce) /\ UNCHANGED notBound
  \/ \E iPoint \in BoundPoints : \E iVar \in BoundVars :
       Get_SurfaceLoad_Res(iPoint, iVar) /\ UNCHANGED notBound
  \/ \E iPoint \in BoundPoints :
       Clear_SurfaceLoad_Res(iPoint) /\ UNCHANGED notBound
  \/ \E iPoint \in BoundPoints : \E iVar \in BoundVars :
       Get_SurfaceLoad_Res_n(iPoint, iVar) /\ UNCHANGED notBound
  \/ \E iPoint \in BoundPoints : \E val_flowTraction \in BoundForces :
       Set_FlowTraction(iPoint, val_flowTraction) /\ UNCHANGED notBound
  \/ \E iPoint \in BoundPoints : \E val_flowTraction \in BoundForces :
       Add_FlowTraction(iPoint, val_flowTraction) /\ UNCHANGED notBound
  \/ \E iPoint \in BoundPoints : \E iVar \in BoundVars :
       Get_FlowTraction(iPoint, iVar) /\ UNCHANGED notBound
  \/ \E iPoint \in BoundPoints : \E iVar \in BoundVars :
       Get_FlowTraction_n(iPoint, iVar) /\ UNCHANGED notBound
  \/ \E iPoint \in BoundPoints :
       Clear_FlowTraction(iPoint) /\ UNCHANGED notBound
  \/ \E iPoint \in BoundPoints :
       RegisterFlowTraction(iPoint) /\ UNCHANGED notBound
  \/ \E iPoint \in BoundPoints : \E iDim \in BoundVars :
       ExtractFlowTraction_Sensitivity(iPoint, iDim) /\ UNCHANGED notBound

SpecBound == BoundSpecInit /\ [][BoundNext]_vars

\* ---- Write_Data: the ranks run the routine side by side ------------------
TecSpecInit ==
  /\ TecInit /\ PartIdle /\ IluIdle /\ KernIdle /\ MatIdle /\ Tne2Idle
  /\ FsiIdle /\ BoundIdle /\ EdgeIdle

TecNext ==
  \/ \E rank \in TecRanks : GetConnectivitySorted(rank) /\ UNCHANGED notTec
  \/ \E rank \in TecRanks : OpenHeader(rank) /\ UNCHANGED notTec
  \/ \E rank \in TecRanks : WriteHeader(rank) /\ UNCHANGED notTec
  \/ \E rank \in TecRanks : CloseHeader(rank) /\ UNCHANGED notTec
  \/ \E rank \in TecRanks : BarrierReturn(rank) /\ UNCHANGED notTec
  \/ \E rank \in TecRanks : OpenAppend(rank) /\ UNCHANGED notTec
  \/ \E rank \in TecRanks : WriteNodeRow(rank) /\ UNCHANGED notTec
  \/ \E rank \in TecRanks : WriteConnRow(rank) /\ UNCHANGED notTec
  \/ \E rank \in TecRanks : BufferSpill(rank) /\ UNCHANGED notTec
  \/ \E rank \in TecRanks : Flush(rank) /\ UNCHANGED notTec
  \/ \E rank \in TecRanks : CloseFile(rank) /\ UNCHANGED notTec

SpecTec == TecSpecInit /\ [][TecNext]_vars

\* every rank keeps running while it can take a step
SpecTecFair == SpecTec /\ WF_vars(TecNext)

\* ------------------------------------------------------------------------
\* Properties of the partitioner
\* ------------------------------------------------------------------------
Ranks == 0..size-1

Max2(a, b) == IF a >= b THEN a ELSE b
Min2(a, b) == IF a <= b THEN a ELSE b

\* number of indices the closed ranges [firstIndex, lastIndex] of r and q share
Shared(r, q) ==
  LET lo == Max2(firstIndex[r], firstIndex[q])
      hi == Min2(lastIndex[r], lastIndex[q])
  IN IF hi >= lo THEN hi - lo + 1 ELSE 0

\* C1: for every global count (0 and counts below size included) the sizes
\* of all ranks add up to the global count.
C1_SizesSumToGlobalCount == Sum(sizeOnRank, size) = val_global_count

C1_Witness ==
  /\ 0 < val_global_count /\ val_global_count < size
  /\ sizeOnRank[0] = 1 /\ sizeOnRank[size-1] = 0
  /\ Sum(sizeOnRank, size) = val_global_count

\* C2: a lookup with a valid index returns the one rank whose cumulative
\* interval holds the index, and that rank is never an empty one.
C2_LookupReturnsOwner ==
  lookup.called =>
    /\ ~lookup.outOfRange
    /\ lookup.rank \in Ranks
    /\ cumulativeSizeBeforeRank[lookup.rank] <= lookup.val_index
    /\ lookup.val_index < cumulativeSizeBeforeRank[lookup.rank + 1]
    /\ \A q \in Ranks :
         (/\ cumulativeSizeBeforeRank[q] <= lookup.val_index
          /\ lookup.val_index < cumulativeSizeBeforeRank[q + 1]) => q = lookup.rank
    /\ sizeOnRank[lookup.rank] > 0

C2_Witness ==
  /\ lookup.called
  /\ val_global_count < size
  /\ lookup.val_index = val_global_count - 1
  /\ lookup.val_index > 0
  /\ lookup.rank = lookup.val_index

\* C3: the cumulative vector starts at 0, every entry (the last one too) is
\* the previous entry plus the previous rank's size, it never decreases and
\* it ends at the global count.
C3_CumulativeIsPrefixSum ==
  /\ cumulativeSizeBeforeRank[0] = 0
  /\ \A r \in Ranks :
       /\ cumulativeSizeBeforeRank[r+1] = cumulativeSizeBeforeRank[r] + sizeOnRank[r]
       /\ cumulativeSizeBeforeRank[r] <= cumulativeSizeBeforeRank[r+1]
  /\ cumulativeSizeBeforeRank[size] = val_global_count

C3_Witness ==
  /\ size >= 3 /\ val_global_count > size /\ val_global_count % size > 0
  /\ cumulativeSizeBeforeRank[size] =
       cumulativeSizeBeforeRank[size-1] + sizeOnRank[size-1]
  /\ cumulativeSizeBeforeRank[size-1] > cumulativeSizeBeforeRank[1]

\* C4: the first (G mod size) ranks hold floor(G/size)+1 unknowns and the
\* others floor(G/size); sizes differ by at most one and never grow with the
\* rank; G = 5 on 2 ranks gives sizes [3,2] and cumulative sizes [0,3,5].
C4_EvenSplit ==
  /\ \A r \in Ranks :
       sizeOnRank[r] = (val_global_count \div size)
                       + (IF r < val_global_count % size THEN 1 ELSE 0)
  /\ \A r, q \in Ranks :
       /\ sizeOnRank[r] - sizeOnRank[q] <= 1
       /\ r < q => sizeOnRank[r] >= sizeOnRank[q]
  /\ (val_global_count = 5 /\ size = 2) =>
       /\ sizeOnRank = (0 :> 3 @@ 1 :> 2)
       /\ cumulativeSizeBeforeRank = (0 :> 0 @@ 1 :> 3 @@ 2 :> 5)

C4_Witness ==
  /\ val_global_count = 5 /\ size = 2
  /\ sizeOnRank[0] = 3 /\ sizeOnRank[1] = 2
  /\ cumulativeSizeBeforeRank[1] = 3 /\ cumulativeSizeBeforeRank[2] = 5

\* C5: the index ranges are contiguous; disjoint ranges end at first+size-1,
\* the next starts one past it and no two ranks share an index; non-disjoint
\* ranges end at first+size, the next starts there and consecutive ranks
\* share exactly one index.
C5_ContiguousRanges ==
  /\ isDisjoint =>
       /\ \A r \in Ranks : lastIndex[r] = U(firstIndex[r] + sizeOnRank[r] - 1)
       /\ \A r \in Ranks : r + 1 < size => firstIndex[r+1] = U(lastIndex[r] + 1)
       /\ \A r, q \in Ranks : r # q => Shared(r, q) = 0
  /\ ~isDisjoint =>
       /\ \A r \in Ranks : lastIndex[r] = U(firstIndex[r] + sizeOnRank[r])
       /\ \A r \in Ranks : r + 1 < size =>
            /\ firstIndex[r+1] = lastIndex[r]
            /\ Shared(r, r+1) = 1

\* the same statement outside the one input on which the end of rank 0
\* wraps around (no unknowns at all, offset 0, disjoint ranges)
C5_ExceptEmptyAtZero ==
  ~(isDisjoint /\ val_global_count = 0 /\ val_offset = 0) => C5_ContiguousRanges

\* ------------------------------------------------------------------------
\* Properties of the ILU accessors
\* ------------------------------------------------------------------------
BlockLen == nVar * nEqn

\* the entries of row block_i
RowSpan(block_i) == row_ptr_ilu[block_i]..(row_ptr_ilu[block_i + 1] - 1)

\* (block_i, block_j) is in the ILU pattern
PresentILU(block_i, block_j) ==
  \E index \in RowSpan(block_i) : col_ind_ilu[index] = block_j

\* its entry (column indices are unique within a row)
EntryILU(block_i, block_j) ==
  CHOOSE index \in RowSpan(block_i) : col_ind_ilu[index] = block_j

IsSetCall(c) == c.op \in {"SetBlock", "SetBlockTransposed"}

SomeNonZero(ilu) == \E k \in DOMAIN ilu : ilu[k] # 0

\* C6: after SetBlock_ILUMatrix(i,j,B) on a pair of the pattern,
\* GetBlock_ILUMatrix(i,j) points at nVar*nEqn values equal to B; for a pair
\* outside the pattern GetBlock_ILUMatrix returns NULL.
C6_ILUBlockRoundTrip ==
  /\ (iluCall.op = "SetBlock" /\ PresentILU(iluCall.block_i, iluCall.block_j)) =>
       LET ret == GetBlock_ILUMatrix(iluCall.block_i, iluCall.block_j)
       IN /\ ~ret.isNull
          /\ \A k \in 0..(BlockLen - 1) :
               ILU_matrix[ret.offset + k] = iluCall.val_block[k]
  /\ \A block_i, block_j \in ILURows :
       ~PresentILU(block_i, block_j) => GetBlock_ILUMatrix(block_i, block_j).isNull
  /\ iluCall.op = "GetBlock" =>
       (iluCall.ret.isNull <=> ~PresentILU(iluCall.block_i, iluCall.block_j))

C6_Witness ==
  /\ iluCall.op = "SetBlock"
  /\ PresentILU(iluCall.block_i, iluCall.block_j)
  /\ iluCall.block_i # iluCall.block_j
  /\ nVar = 2 /\ nEqn = 3
  /\ ~GetBlock_ILUMatrix(iluCall.block_i, iluCall.block_j).isNull
  /\ GetBlock_ILUMatrix(iluCall.block_i, iluCall.block_j).offset > 0
  /\ \E block_i, block_j \in ILURows : GetBlock_ILUMatrix(block_i, block_j).isNull

\* C7: a setter called on a pair outside the ILU pattern changes no stored
\* value; called on a pair of the pattern it changes values of that block
\* only.
C7_SettersTouchOneBlock ==
  [][ IsSetCall(iluCall') =>
        IF PresentILU(iluCall'.block_i, iluCall'.block_j)
        THEN \A k \in DOMAIN ILU_matrix :
               (k \div BlockLen) # EntryILU(iluCall'.block_i, iluCall'.block_j)
                 => ILU_matrix'[k] = ILU_matrix[k]
        ELSE ILU_matrix' = ILU_matrix ]_vars

C7_Witness ==
  /\ iluCall.op = "SetBlockTransposed"
  /\ ~PresentILU(iluCall.block_i, iluCall.block_j)
  /\ SomeNonZero(ILU_matrix)
  /\ \E k \in DOMAIN ILU_matrix : ILU_matrix[k] = 0

\* C8: after SetBlockTransposed_ILUMatrix(i,j,B) the stored entry (iVar,jVar)
\* is B's entry (jVar,iVar); for square blocks the stored block is what
\* SetBlock_ILUMatrix leaves when given the transpose of B.
TransposeBlock(val_block, n) ==
  [k \in 0..(n*n - 1) |-> val_block[(k % n) * n + (k \div n)]]

C8_TransposedSetStoresTranspose ==
  (iluCall.op = "SetBlockTransposed" /\ PresentILU(iluCall.block_i, iluCall.block_j)) =>
    LET index == EntryILU(iluCall.block_i, iluCall.block_j)
    IN /\ \A iVar \in 0..(nVar - 1) : \A jVar \in 0..(nEqn - 1) :
            ILU_matrix[index*BlockLen + iVar*nEqn + jVar]
              = iluCall.val_block[jVar*nVar + iVar]
       /\ nVar = nEqn =>
            ILU_matrix = SetBlockValues(ILU_matrix, index,
                           TransposeBlock(iluCall.val_block, nVar), nVar, nEqn)

C8_Witness ==
  /\ iluCall.op = "SetBlockTransposed"
  /\ PresentILU(iluCall.block_i, iluCall.block_j)
  /\ EntryILU(iluCall.block_i, iluCall.block_j) > 0
  /\ nVar = 2 /\ nEqn = 2
  /\ LET base == EntryILU(iluCall.block_i, iluCall.block_j) * BlockLen
     IN /\ ILU_matrix[base + 1] = iluCall.val_block[2]
        /\ ILU_matrix[base + 2] = iluCall.val_block[1]
        /\ ILU_matrix[base + 1] # ILU_matrix[base + 2]

\* ------------------------------------------------------------------------
\* Properties of the block kernels
\* ------------------------------------------------------------------------
\* the dense products, entry by entry
DenseProduct(n, a, x) ==
  [i \in 0..n-1 |-> Sum([j \in 0..n-1 |-> a[i*n + j] * x[j]], n)]

DenseProductTransposed(n, a, x) ==
  [i \in 0..n-1 |-> Sum([j \in 0..n-1 |-> a[j*n + i] * x[j]], n)]

VecAdd(u, v) == [i \in DOMAIN u |-> u[i] + v[i]]
VecSub(u, v) == [i \in DOMAIN u |-> u[i] - v[i]]
VecScale(a, u) == [i \in DOMAIN u |-> a * u[i]]

LastCall == kCalls[Len(kCalls)]
LastPrior == kPrior[Len(kPrior)]

\* C9: MatrixVectorProduct leaves A*x whatever the output held, Add leaves
\* p + A*x, Sub leaves p - A*x, Transp leaves p + transpose(A)*x, and Add
\* followed by Sub restores p.
C9_KernelsMatchDenseProduct ==
  Len(kCalls) > 0 =>
    /\ LastCall = "MatrixVectorProduct" =>
         kProduct = DenseProduct(kN, kMatrix, kVector)
    /\ LastCall = "MatrixVectorProductAdd" =>
         kProduct = VecAdd(LastPrior, DenseProduct(kN, kMatrix, kVector))
    /\ LastCall = "MatrixVectorProductSub" =>
         kProduct = VecSub(LastPrior, DenseProduct(kN, kMatrix, kVector))
    /\ LastCall = "MatrixVectorProductTransp" =>
         kProduct = VecAdd(LastPrior, DenseProductTransposed(kN, kMatrix, kVector))
    /\ (/\ Len(kCalls) >= 2
        /\ kCalls[Len(kCalls) - 1] = "MatrixVectorProductAdd"
        /\ LastCall = "MatrixVectorProductSub") =>
         kProduct = kPrior[Len(kPrior) - 1]

C9_Witness ==
  /\ Len(kCalls) = 2
  /\ kCalls[1] = "MatrixVectorProductAdd"
  /\ kCalls[2] = "MatrixVectorProductSub"
  /\ kN = 2
  /\ kPrior[1] # kPrior[2]
  /\ kProduct = kPrior[1]
  /\ kProduct[0] # 0
  /\ DenseProduct(kN, kMatrix, kVector) # DenseProductTransposed(kN, kMatrix, kVector)

\* C10: the product is linear in the vector: the product of a*x + b*y is a
\* times the product of x plus b times the product of y.
Scalars == {-1, 0, 2, 3}

C10_ProductIsLinear ==
  (Len(kCalls) = 1 /\ kCalls[1] = "MatrixVectorProduct") =>
    \A y \in [0..(kN - 1) -> Vals] :
      LET prodY == MatrixVectorProduct(kN, kMatrix, y, kPrior[1])
      IN \A a, b \in Scalars :
           MatrixVectorProduct(kN, kMatrix,
                               VecAdd(VecScale(a, kVector), VecScale(b, y)),
                               kPrior[1])
             = VecAdd(VecScale(a, kProduct), VecScale(b, prodY))

C10_Witness ==
  /\ Len(kCalls) = 1 /\ kCalls[1] = "MatrixVectorProduct"
  /\ kN = 2
  /\ kPrior[1][0] # 0
  /\ kProduct[0] # 0 /\ kProduct[1] # 0 /\ kProduct[0] # kProduct[1]
  /\ \E y \in [0..(kN - 1) -> Vals] :
       /\ y # kVector
       /\ MatrixVectorProduct(kN, kMatrix, VecAdd(VecScale(2, kVector), VecScale(3, y)), kPrior[1])
            = VecAdd(VecScale(2, kProduct), VecScale(3, MatrixVectorProduct(kN, kMatrix, y, kPrior[1])))

\* ------------------------------------------------------------------------
\* Properties of the row products
\* ------------------------------------------------------------------------
RowProductOps == {"UpperProduct", "LowerProduct", "DiagonalProduct"}

\* the stored entries of row row_i
RowEntries(row_i) == row_ptr[row_i]..(row_ptr[row_i + 1] - 1)

\* A_ij * vec_j for the stored entry index
EntryTimesVec(index) ==
  DenseProduct(nVar, Slice(matrix, index*nVar*nVar, nVar*nVar),
               Slice(vec, col_ind[index]*nVar, nVar))

RECURSIVE VecSumOver(_)
VecSumOver(S) ==
  IF S = {} THEN ZeroVector(nVar)
  ELSE LET index == CHOOSE x \in S : TRUE
       IN VecAdd(EntryTimesVec(index), VecSumOver(S \ {index}))

LowerEntries(row_i) == { index \in RowEntries(row_i) : col_ind[index] < row_i }
UpperEntries(row_i) == { index \in RowEntries(row_i) : col_ind[index] > row_i }
DiagEntries(row_i)  == { index \in RowEntries(row_i) : col_ind[index] = row_i }

\* the row stores its columns in ascending order
RowAscending(row_i) ==
  \A x, y \in RowEntries(row_i) : x < y => col_ind[x] < col_ind[y]

\* the pattern invariants the data model states
PatternInvariants ==
  /\ \A row_i \in Rows : \A x, y \in RowEntries(row_i) :
       x # y => col_ind[x] # col_ind[y]
  /\ \A row_i \in Rows :
       dia_ptr[row_i] \in RowEntries(row_i) /\ col_ind[dia_ptr[row_i]] = row_i

RowProductMatchesColumns ==
  /\ matCall.op = "LowerProduct" =>
       prod_row_vector = VecSumOver(LowerEntries(matCall.row_i))
  /\ matCall.op = "UpperProduct" =>
       prod_row_vector = VecSumOver(UpperEntries(matCall.row_i))
  /\ matCall.op = "DiagonalProduct" =>
       prod_row_vector = VecSumOver(DiagEntries(matCall.row_i))

\* C11 as stated: on every matrix with unique columns per row and dia_ptr at
\* the diagonal entry, LowerProduct leaves the sum over the entries with
\* column < row, UpperProduct over those with column > row, DiagonalProduct
\* leaves A_ii*vec_i.
C11_AsStated ==
  (PatternInvariants /\ matCall.op \in RowProductOps) => RowProductMatchesColumns

\* C11 amended: the same for the rows that store their columns in ascending
\* order (DiagonalProduct for every row).
C11_RowProductsOnSortedRows ==
  (/\ PatternInvariants
   /\ matCall.op \in RowProductOps
   /\ (matCall.op # "DiagonalProduct" => RowAscending(matCall.row_i)))
    => RowProductMatchesColumns

C11_Witness ==
  /\ PatternInvariants
  /\ matCall.op = "LowerProduct"
  /\ RowAscending(matCall.row_i)
  /\ LowerEntries(matCall.row_i) # {} /\ UpperEntries(matCall.row_i) # {}
  /\ prod_row_vector = VecSumOver(LowerEntries(matCall.row_i))
  /\ prod_row_vector # VecSumOver(UpperEntries(matCall.row_i))
  /\ prod_row_vector # ZeroVector(nVar)
  /\ nVar = 2

RowProductOf(op, row_i, prod) ==
  CASE op = "UpperProduct"    -> UpperProduct(vec, row_i, prod)
    [] op = "LowerProduct"    -> LowerProduct(vec, row_i, prod)
    [] op = "DiagonalProduct" -> DiagonalProduct(vec, row_i, prod)

\* contents an earlier call may have left in the scratch vector
ScratchContents ==
  { ZeroVector(nVar), [k \in 0..nVar-1 |-> k + 7], prod_row_vector }

\* C15: a row product gives the same prod_row_vector whatever the scratch
\* vector held before the call, and the call changes neither the matrix
\* values nor the input vector.
C15_RowProductsRepeatable ==
  [][ matCall'.op \in RowProductOps =>
        /\ matrix' = matrix
        /\ vec' = vec
        /\ \A s \in ScratchContents \cup {prod_row_vector'} :
             RowProductOf(matCall'.op, matCall'.row_i, s) = prod_row_vector' ]_vars

C15_Witness ==
  /\ matCall.op = "DiagonalProduct"
  /\ matCall.before # ZeroVector(nVar)
  /\ matCall.before # prod_row_vector
  /\ prod_row_vector = DiagonalProduct(vec, matCall.row_i, matCall.before)
  /\ prod_row_vector = DiagonalProduct(vec, matCall.row_i, prod_row_vector)
  /\ nVar = 2

\* ------------------------------------------------------------------------
\* Properties of the operations on diagonal blocks
\* ------------------------------------------------------------------------
\* C12: Gauss_Elimination(block_i, rhs, transposed) solves on a copy: the
\* scratch block handed to the solve is the stored diagonal block, or its
\* transpose when transposed is set; the call leaves every stored matrix
\* value unchanged and writes the scratch block and rhs only.
C12_GaussWorksOnCopy ==
  [][ matCall'.op = "Gauss_Elimination" =>
        /\ \A iVar, jVar \in 0..(nVar - 1) :
             matCall'.copied[iVar*nVar + jVar] =
               IF matCall'.transposed
               THEN DiagonalBlock(matCall'.block_i)[jVar*nVar + iVar]
               ELSE DiagonalBlock(matCall'.block_i)[iVar*nVar + jVar]
        /\ matrix' = matrix
        /\ ILU_matrix' = ILU_matrix
        /\ vec' = vec /\ prod_row_vector' = prod_row_vector
        /\ invBlock' = invBlock ]_vars

C12_Witness ==
  /\ matCall.op = "Gauss_Elimination"
  /\ matCall.transposed
  /\ nVar = 2
  /\ matCall.copied # DiagonalBlock(matCall.block_i)
  /\ matCall.copied[1] = DiagonalBlock(matCall.block_i)[2]
  /\ block # matCall.copied
  /\ rhs # matCall.rhs_in
  /\ DenseProduct(nVar, matCall.copied, rhs) = matCall.rhs_in

\* C13: with transpose set InverseDiagonalBlock returns the transpose of
\* what it returns without: equal diagonal entries, entry (i,j) exchanged
\* with entry (j,i); the stored matrix is unchanged either way.
C13_InverseTransposeOption ==
  [][ matCall'.op = "InverseDiagonalBlock" =>
        /\ matrix' = matrix
        /\ LET plain == InverseDiagonalBlock(matCall'.block_i, FALSE)
           IN \A iVar, jVar \in 0..(nVar - 1) :
                invBlock'[iVar*nVar + jVar] =
                  IF matCall'.transpose THEN plain[jVar*nVar + iVar]
                                        ELSE plain[iVar*nVar + jVar] ]_vars

C13_Witness ==
  /\ matCall.op = "InverseDiagonalBlock"
  /\ matCall.transpose
  /\ nVar = 2
  /\ invBlock[1] # invBlock[2]
  /\ invBlock[2] = InverseDiagonalBlock(matCall.block_i, FALSE)[1]
  /\ gemm_impl(nVar, TransposeBlock(invBlock, nVar), DiagonalBlock(matCall.block_i))
       = [k \in 0..3 |-> IF k \in {0, 3} THEN 1 ELSE 0]

\* ------------------------------------------------------------------------
\* Properties of the sparsity structure
\* ------------------------------------------------------------------------
structure == <<row_ptr, col_ind, dia_ptr, row_ptr_ilu, col_ind_ilu, dia_ptr_ilu>>

DiagonalInRow(rptr, cind, dptr) ==
  \A i \in Rows :
    /\ rptr[i] <= dptr[i] /\ dptr[i] < rptr[i + 1]
    /\ cind[dptr[i]] = i

\* C14: no operation writes row_ptr, col_ind, dia_ptr or their ILU
\* counterparts, and in every state reached by a sequence of operations
\* dia_ptr[i] lies in the span of row i at the entry whose column is i.
C14_StructureInvariant ==
  /\ [](/\ DiagonalInRow(row_ptr, col_ind, dia_ptr)
        /\ DiagonalInRow(row_ptr_ilu, col_ind_ilu, dia_ptr_ilu))
  /\ [][structure' = structure]_vars

C14_Witness ==
  /\ nMatCalls = 2
  /\ iluCall.op \in {"SetBlock", "SetBlockTransposed"}
  /\ ILU_matrix # matrix
  /\ matCall.op \in RowProductOps \cup {"Gauss_Elimination", "InverseDiagonalBlock"}
  /\ \E i \in Rows : dia_ptr[i] # row_ptr[i]
  /\ DiagonalInRow(row_ptr, col_ind, dia_ptr)

\* ------------------------------------------------------------------------
\* Safety of the rank lookup
\* ------------------------------------------------------------------------
\* C19: for every index below the global count the lookup divides by a
\* non-zero sizeOnRank[0], starts at a guess that does not exceed the
\* owning rank and so never walks downward, reads cumulativeSizeBeforeRank
\* only at subscripts 0..size, and ends after at most size-1 steps.
C19_LookupSafeAndBounded ==
  lookup.called =>
    /\ lookup.val_index < val_global_count
    /\ sizeOnRank[0] # 0
    /\ lookup.guess <= size - 1
    /\ lookup.guess <= lookup.rank
    /\ lookup.down = 0
    /\ ~lookup.outOfRange
    /\ lookup.up = lookup.rank - lookup.guess
    /\ lookup.up <= size - 1
    /\ lookup.rank <= size - 1

C19_Witness ==
  /\ lookup.called
  /\ size >= 3
  /\ lookup.guess < lookup.rank
  /\ lookup.up >= 1
  /\ lookup.rank = size - 1
  /\ ~lookup.outOfRange

\* ------------------------------------------------------------------------
\* Order of the calls of FSI_BGS_Iteration
\* ------------------------------------------------------------------------
RECURSIVE Repeat(_, _)
Repeat(calls, count) == IF count = 0 THEN <<>> ELSE calls \o Repeat(calls, count - 1)

IsPrefix(s, t) == Len(s) <= Len(t) /\ SubSeq(t, 1, Len(s)) = s

\* C20: one predictor call, then at most nFSIIter sub-iterations, each the
\* six calls in program order, the loop left at the first sub-iteration
\* whose monitoring set the flag; then Flow_Update, FEA_Update and the
\* reset of the flag, which is false on return.
C20_BGSCallOrder ==
  LET passes == Len(fsiMonitor)
      whole  == <<"FSI_Disp_Predictor">> \o Repeat(SubIterationCalls, passes)
                  \o ClosingCalls
  IN /\ passes <= nFSIIter
     /\ \A q \in 1..(passes - 1) : ~fsiMonitor[q]
     /\ fsiPc = "return" =>
          /\ ~Convergence_FSI
          /\ fsiTrace = whole
          /\ passes = nFSIIter \/ fsiMonitor[passes]
     /\ fsiPc \notin {"return", "idle"} =>
          \/ IsPrefix(fsiTrace, <<"FSI_Disp_Predictor">>
                                  \o Repeat(SubIterationCalls, nFSIIter))
          \/ IsPrefix(fsiTrace, whole)

C20_Witness ==
  /\ fsiPc = "return"
  /\ nFSIIter = 3
  /\ fsiMonitor = <<FALSE, TRUE>>
  /\ Len(fsiTrace) = 16
  /\ ~Convergence_FSI

C20_WitnessNoSubIteration ==
  /\ fsiPc = "return"
  /\ nFSIIter = 0
  /\ fsiTrace = <<"FSI_Disp_Predictor", "Flow_Update", "FEA_Update", "SetConvergence_FSI">>

\* ------------------------------------------------------------------------
\* Properties of the nonlinear iteration of CTNE2EulerSolver
\* ------------------------------------------------------------------------
KrylovTerminal == {"Converged", "MaxIterReached", "Diverged"}

SolveInvoked(iRank) ==
  pc[iRank] = "Solve" /\ Kind_Linear_Solver \in KrylovSolvers

SolveRecorded(iRank) ==
  /\ pc[iRank] = "Set_MPI_Solution"
  /\ lin[iRank].status \in KrylovTerminal
  /\ lin[iRank].status = "MaxIterReached" => lin[iRank].iter = Linear_Solver_Iter
  /\ IterLinSolver[iRank] = lin[iRank].iter

\* C16: a Krylov solve invoked with the cap Linear_Solver_Iter makes at
\* most that many iterations and returns to ImplicitEuler_Iteration, also
\* when the tolerance was not reached, and the returned count is then
\* recorded with SetIterLinSolver.
C16_SolveTerminatesAndIsRecorded ==
  \A iRank \in TNE2Ranks :
    /\ [](lin[iRank].iter <= Linear_Solver_Iter)
    /\ SolveInvoked(iRank) ~> SolveRecorded(iRank)

\* the same for the preconditioner kinds ImplicitEuler_Iteration builds
C16_WithBuiltPreconditioner ==
  Kind_Linear_Solver_Prec \in BuiltPreconditioners => C16_SolveTerminatesAndIsRecorded

\* the value of rank owner's point after its update of iteration number
OwnerValueAfter(owner, number) ==
  IF number = 0 THEN InitialSolution(owner) ELSE solAfter[owner][number]

\* C17: Set_MPI_Solution comes after the last write of the iteration to
\* the owned solution values and before the iteration returns, with or
\* without adjoint; every step after the iteration finds at the halo point
\* the value its owner had after the update of that iteration.
C17_ExchangeAfterUpdate ==
  \A iRank \in TNE2Ranks :
    LET owner == Neighbour(iRank)
    IN /\ done[iRank] <= Len(solAfter[owner])
       /\ Solution[iRank][1] = OwnerValueAfter(owner, done[iRank])
       /\ pc[iRank] \in {"SetResidual_RMS", "Returned"} =>
            /\ done[iRank] = ExtIter[iRank]
            /\ Len(solAfter[iRank]) = ExtIter[iRank]
            /\ sent[iRank] = Solution[iRank][0]
       /\ pc[iRank] \in {"Preprocessing", "Upwind_Residual", "Source_Residual"} =>
            done[iRank] = ExtIter[iRank] - 1

C17_Witness ==
  \E iRank \in TNE2Ranks :
    /\ pc[iRank] = "Returned"
    /\ ExtIter[iRank] >= 2
    /\ ~adjoint
    /\ Len(solAfter[Neighbour(iRank)]) >= 2
    /\ Solution[iRank][1] = solAfter[Neighbour(iRank)][2]
    /\ solAfter[Neighbour(iRank)][2] # solAfter[Neighbour(iRank)][1]
    /\ sent[iRank] # InitialSolution(iRank)

\* C18: when the first residual routine of an iteration starts, LinSysRes
\* is zero at every point, owned and halo, and with the implicit scheme
\* every Jacobian value is zero: nothing of the previous iteration, the
\* AddVal2Diag augmentation included, is left.
C18_ZeroedBeforeAssembly ==
  \A iRank \in TNE2Ranks :
    /\ pc[iRank] = "Upwind_Residual" =>
         /\ LinSysRes[iRank] = ZeroPoints
         /\ implicit => Jacobian[iRank] = ZeroBlocks
    /\ pc[iRank] = "Source_Residual" =>
         /\ LinSysRes[iRank] = UpwindResidual(ZeroPoints, iRank)
         /\ implicit => Jacobian[iRank] = UpwindJacobian(ZeroBlocks)

C18_Witness ==
  \E iRank \in TNE2Ranks :
    /\ implicit
    /\ ExtIter[iRank] >= 2
    /\ pc[iRank] = "Upwind_Residual"
    /\ IterLinSolver[iRank] >= 1
    /\ LinSysRes[iRank] = ZeroPoints /\ Jacobian[iRank] = ZeroBlocks
    /\ Solution[iRank][0] # InitialSolution(iRank)

\* ------------------------------------------------------------------------
\* Properties of CFEABoundVariable
\* ------------------------------------------------------------------------
\* the step is a call of Set_isVertex / of a mapped accessor
IsSetIsVertexStep == bndCall'.op = "Set_isVertex"
IsMappedStep == bndCall'.op \in MappedAccessors

\* C21: Set_isVertex(p, v) changes state only when v differs from
\* (VertexMap(p) != 0); it then stores 1 or 0 in VertexMap(p) and clears
\* isAllocated, and otherwise changes nothing, also for an index above 1. It
\* never sets isAllocated, and Get_isVertex(p) = v right after it. Once a
\* status changed, isAllocated stays false until AllocateBoundaryVariables,
\* and a mapped accessor called while it is false fails its assertion.
C21_SetIsVertexInvalidates ==
  /\ [][IsSetIsVertexStep =>
          LET p == bndCall'.iPoint
              v == bndCall'.isVertex
          IN /\ IF v # (VertexMap[p] # 0)
                  THEN /\ VertexMap' = [VertexMap EXCEPT
                                          ![p] = IF v THEN 1 ELSE 0]
                       /\ isAllocated' = FALSE
                  ELSE /\ VertexMap' = VertexMap
                       /\ isAllocated' = isAllocated
             /\ boundStorage' = boundStorage
             /\ (isAllocated' => isAllocated)
             /\ (VertexMap'[p] # 0) = v]_vars
  /\ [](statusChanged => ~isAllocated)
  /\ [][IsMappedStep /\ ~isAllocated =>
          bndPc' = "Aborted" /\ bndCall'.outcome = "abort"
          /\ boundStorage' = boundStorage]_vars

\* a mapped accessor was called after a vertex status changed on a variable
\* that had been allocated with both points as vertices, and aborted
C21_Witness ==
  /\ bndPc = "Aborted" /\ bndCall.op \in MappedAccessors
  /\ statusChanged /\ ~isAllocated
  /\ DOMAIN FlowTraction = {0, 1}
  /\ \E iPoint \in BoundPoints : VertexMap[iPoint] = 2

\* Set_isVertex(p, true) on a point whose VertexMap entry is 2 changed nothing
C21_WitnessIndexAboveOne ==
  /\ bndCall.op = "Set_isVertex" /\ bndCall.isVertex
  /\ VertexMap[bndCall.iPoint] = 2 /\ isAllocated

\* the array a mapped getter returns an entry of
GetterArray(op) ==
  CASE op = "Get_SurfaceLoad_Res"   -> Residual_Ext_Surf
    [] op = "Get_SurfaceLoad_Res_n" -> Residual_Ext_Surf_n
    [] op = "Get_FlowTraction"      -> FlowTraction
    [] op = "Get_FlowTraction_n"    -> FlowTraction_n

\* the rows of a boundary array other than iVertex are the same before and after
OtherRowsKept(before, after, iVertex) ==
  /\ DOMAIN after = DOMAIN before
  /\ \A jVertex \in DOMAIN before \ {iVertex} : after[jVertex] = before[jVertex]

\* C23: with isAllocated, a mapped accessor called on a point that is not a
\* vertex (VertexMap(p) = 0) returns 0.0 if it is a getter and leaves all
\* boundary storage unchanged; called on a vertex it reads or writes only row
\* VertexMap(p) - 1 of the boundary arrays.
C23_MappedAccessOnOwnRow ==
  [][IsMappedStep /\ isAllocated =>
       LET p  == bndCall'.iPoint
           op == bndCall'.op
           iVertex == VertexMap[p] - 1
       IN IF VertexMap[p] = 0
            THEN /\ boundStorage' = boundStorage
                 /\ bndCall'.rows = {}
                 /\ bndCall'.outcome = "return"
                 /\ op \in MappedGetters => bndCall'.ret = 0
            ELSE /\ bndCall'.rows = {iVertex}
                 /\ OtherRowsKept(FlowTraction, FlowTraction', iVertex)
                 /\ OtherRowsKept(FlowTraction_n, FlowTraction_n', iVertex)
                 /\ OtherRowsKept(Residual_Ext_Surf, Residual_Ext_Surf', iVertex)
                 /\ OtherRowsKept(Residual_Ext_Surf_n, Residual_Ext_Surf_n', iVertex)
                 /\ op \in MappedGetters =>
                      /\ boundStorage' = boundStorage
                      /\ \A iVar \in bndCall'.iVars :
                           bndCall'.ret = GetterArray(op)[iVertex][iVar]]_vars

\* a getter returned the 1 stored in row 1 for the second vertex while row 0
\* holds 0 in that entry
C23_Witness ==
  /\ isAllocated /\ bndPc = "running" /\ bndCall.op \in MappedGetters
  /\ VertexMap[bndCall.iPoint] = 2
  /\ bndCall.rows = {1} /\ bndCall.ret = 1
  /\ \A iVar \in bndCall.iVars : GetterArray(bndCall.op)[0][iVar] = 0

\* a setter was called on a point that is not a vertex while the other
\* point's row holds loads
C23_WitnessNotVertex ==
  /\ isAllocated /\ bndCall.op \in MappedSetters
  /\ VertexMap[bndCall.iPoint] = 0
  /\ DOMAIN FlowTraction = {0}
  /\ \E iVar \in BoundVars : FlowTraction[0][iVar] = 1
  /\ \E iVar \in BoundVars : Residual_Ext_Surf[0][iVar] = 1

\* C29: every per-point accessor of the boundary arrays (getters, setters,
\* clear, register and sensitivity extraction) checks isAllocated and indexes
\* the arrays only with the point index translated through VertexMap.
C29_EveryAccessorChecksAndMaps ==
  bndCall.op \in MappedAccessors \cup RawAccessors =>
    /\ bndCall.checked
    /\ bndCall.outcome = "return" =>
         /\ bndCall.mapped
         /\ bndCall.rows \subseteq {VertexMap[bndCall.iPoint] - 1}

\* the ten accessors written with APPLY_VERTEXMAP do check and translate
C29_MappedAccessorsCheckAndMap ==
  bndCall.op \in MappedAccessors =>
    /\ bndCall.checked
    /\ bndCall.outcome = "return" =>
         /\ bndCall.mapped
         /\ bndCall.rows \subseteq {VertexMap[bndCall.iPoint] - 1}

\* ------------------------------------------------------------------------
\* Properties of CTecplotFileWriter::Write_Data
\* ------------------------------------------------------------------------
\* the node rows of the ranks below k in rank order, and the same for elements
NodeRowsBelow[k \in 0..tecSize] ==
  IF k = 0 THEN <<>>
  ELSE NodeRowsBelow[k - 1] \o [i \in 1..nPoints[k - 1] |-> NodeRow(k - 1, i - 1)]

ConnRowsBelow[k \in 0..tecSize] ==
  IF k = 0 THEN <<>>
  ELSE ConnRowsBelow[k - 1] \o [i \in 1..nParallel[k - 1] |-> ConnRow(k - 1, i - 1)]

\* header, then all node rows by rank, then all element rows by rank
TecExpected == (<<HeaderRow>> \o NodeRowsBelow[tecSize]) \o ConnRowsBelow[tecSize]

\* the rank holds rows in its stream or stands at a statement that writes one
CanWrite(rank) ==
  \/ tecBuffer[rank] # <<>>
  \/ tecPc[rank] \in {"HeaderWrite", "HeaderClose"}
  \/ /\ tecPc[rank] = "NodeLoop" /\ iProcessorTec[rank] = rank
     /\ iRow[rank] < nPoints[rank]
  \/ /\ tecPc[rank] = "ConnLoop" /\ iProcessorTec[rank] = rank
     /\ iRow[rank] < nParallel[rank]

AllWritten == \A rank \in TecRanks : tecPc[rank] = "Done"

\* C22: with sorted connectivity, only the master writes the header and has
\* closed the file before any rank opens it for appending; at most one rank
\* writes at any time; the file grows as header, node rows in increasing rank
\* order, then element rows in increasing rank order; every rank passes
\* 1 + 2*size barriers and every rank finishes.
C22_RanksWriteInTurn ==
  /\ [](connectivitySorted =>
          /\ IsPrefix(tecDisk, TecExpected)
          /\ Cardinality({rank \in TecRanks : CanWrite(rank)}) <= 1
          /\ \A rank \in TecRanks :
               /\ Tecplot_File[rank] = "out" => rank = MASTER_NODE
               /\ Tecplot_File[rank] = "app" =>
                    /\ Tecplot_File[MASTER_NODE] # "out"
                    /\ Len(tecDisk) >= 1 /\ tecDisk[1] = HeaderRow
               /\ nBarrier[rank] <= 1 + 2 * tecSize
               /\ tecPc[rank] = "Done" => nBarrier[rank] = 1 + 2 * tecSize)
  /\ (connectivitySorted => <>(AllWritten /\ tecDisk = TecExpected))

\* every rank of a run of more than one rank wrote two node rows and two
\* element rows and returned
C22_Witness ==
  /\ connectivitySorted /\ tecSize >= 2 /\ AllWritten
  /\ \A rank \in TecRanks : nPoints[rank] = 2 /\ nParallel[rank] = 2
  /\ tecDisk = TecExpected
  /\ Len(tecDisk) = 1 + 4 * tecSize

\* C24: when ImplicitEuler_Iteration invokes the linear solver the right hand
\* side is minus (assembled residual plus truncation error) at every owned
\* point and 0 at every halo point, and LinSysSol is 0 at every point; after
\* the solve the state of each owned point grows by the relaxation factor
\* times its LinSysSol entry, and is left unchanged in an adjoint run.
C24_ImplicitSystemAndUpdate ==
  /\ [][\A iRank \in TNE2Ranks :
          pc[iRank] = "ImplicitEuler_Iteration" /\ pc'[iRank] = "Solve" =>
            /\ \A iPoint \in OwnedPoints :
                 LinSysRes'[iRank][iPoint] =
                   0 - (LinSysRes[iRank][iPoint] + GetResTruncError(iRank))
            /\ \A iPoint \in HaloPoints : LinSysRes'[iRank][iPoint] = 0
            /\ \A iPoint \in Points : LinSysSol'[iRank][iPoint] = 0]_vars
  /\ [](\A iRank \in TNE2Ranks :
          pc[iRank] = "Solve" =>
            /\ \A iPoint \in HaloPoints : LinSysRes[iRank][iPoint] = 0
            /\ \A iPoint \in Points : LinSysSol[iRank][iPoint] = 0)
  /\ [][\A iRank \in TNE2Ranks :
          pc[iRank] = "SetIterLinSolver" /\ pc'[iRank] # "SetIterLinSolver" =>
            \A iPoint \in OwnedPoints :
              Solution'[iRank][iPoint] =
                IF adjoint THEN Solution[iRank][iPoint]
                ELSE Solution[iRank][iPoint]
                       + Linear_Solver_Relax * LinSysSol[iRank][iPoint]]_vars

\* the rank with a truncation error has, in its second implicit iteration,
\* solved a system with a nonzero right hand side and updated its state
C24_Witness ==
  /\ implicit /\ ~adjoint
  /\ pc[1] = "Set_MPI_Solution" /\ ExtIter[1] = 2
  /\ GetResTruncError(1) # 0
  /\ LinSysRes[1][0] # 0 /\ LinSysSol[1][0] # 0
  /\ Len(solAfter[1]) = 2
  /\ solAfter[1][2] = solAfter[1][1] + Linear_Solver_Relax * LinSysSol[1][0]

\* ------------------------------------------------------------------------
\* The three row products together
\* ------------------------------------------------------------------------
\* the stored entries each product visits
UsedByLower(row_i)    == row_ptr[row_i]..(dia_ptr[row_i] - 1)
UsedByDiagonal(row_i) == {dia_ptr[row_i]}
UsedByUpper(row_i)    == (dia_ptr[row_i] + 1)..(row_ptr[row_i + 1] - 1)

ThreeProducts(row_i) ==
  VecAdd(LowerProduct(vec, row_i, prod_row_vector),
         VecAdd(DiagonalProduct(vec, row_i, prod_row_vector),
                UpperProduct(vec, row_i, prod_row_vector)))

\* C25: for every row i with dia_ptr[i] inside the row's span, the entries
\* visited by LowerProduct, DiagonalProduct and UpperProduct are pairwise
\* disjoint and together all stored entries of the row, and the three results
\* add up to the sum of A_ij*vec_j over the stored entries of the row, for
\* rows stored in column order and for rows that are not.
C25_ThreeProductsCoverRow ==
  \A row_i \in Rows :
    dia_ptr[row_i] \in RowEntries(row_i) =>
      /\ UsedByLower(row_i) \cap UsedByDiagonal(row_i) = {}
      /\ UsedByLower(row_i) \cap UsedByUpper(row_i) = {}
      /\ UsedByDiagonal(row_i) \cap UsedByUpper(row_i) = {}
      /\ (UsedByLower(row_i) \cup UsedByDiagonal(row_i)) \cup UsedByUpper(row_i)
           = RowEntries(row_i)
      /\ ThreeProducts(row_i) = VecSumOver(RowEntries(row_i))

\* UpperProduct was called on a row stored out of column order, where it sums
\* an entry left of the diagonal; its result is not zero and differs from the
\* sum over the columns above the row
C25_Witness ==
  /\ matCall.op = "UpperProduct" /\ nVar = 2
  /\ ~RowAscending(matCall.row_i)
  /\ dia_ptr[matCall.row_i] \in RowEntries(matCall.row_i)
  /\ UsedByUpper(matCall.row_i) # {} /\ UsedByLower(matCall.row_i) # {}
  /\ prod_row_vector = UpperProduct(vec, matCall.row_i, prod_row_vector)
  /\ prod_row_vector # VecSumOver(UpperEntries(matCall.row_i))
  /\ prod_row_vector # ZeroVector(nVar)
  /\ ThreeProducts(matCall.row_i) = VecSumOver(RowEntries(matCall.row_i))

\* ------------------------------------------------------------------------
\* First indices of the partitioner
\* ------------------------------------------------------------------------
\* C26: firstIndex[r] = offset + cumulativeSizeBeforeRank[r] for every rank r,
\* with disjoint and with overlapping ranges; so with offset 0 and disjoint
\* ranges the rank returned by GetRankContainingIndex(i) for a valid index i
\* is the rank whose range firstIndex[r]..lastIndex[r] holds i.
C26_FirstIndexIsOffsetPlusCumulative ==
  /\ \A r \in Ranks : firstIndex[r] = val_offset + cumulativeSizeBeforeRank[r]
  /\ (lookup.called /\ val_offset = 0 /\ isDisjoint) =>
       /\ firstIndex[lookup.rank] <= lookup.val_index
       /\ lookup.val_index <= lastIndex[lookup.rank]
       /\ \A q \in Ranks :
            (firstIndex[q] <= lookup.val_index /\ lookup.val_index <= lastIndex[q])
              => q = lookup.rank

\* a lookup on disjoint ranges without offset returned the last of three or
\* more ranks, for an index that is the first of that rank
C26_Witness ==
  /\ lookup.called /\ val_offset = 0 /\ isDisjoint /\ size >= 3
  /\ lookup.rank = size - 1
  /\ lookup.val_index = firstIndex[lookup.rank]
  /\ firstIndex[lookup.rank] = cumulativeSizeBeforeRank[lookup.rank]
  /\ lastIndex[lookup.rank] > firstIndex[lookup.rank]

\* overlapping ranges with an offset and an empty last rank
C26_WitnessNotDisjoint ==
  /\ ~isDisjoint /\ val_offset > 0 /\ size >= 3
  /\ sizeOnRank[size - 1] = 0 /\ sizeOnRank[0] > 0
  /\ firstIndex[size - 1] = val_offset + val_global_count

\* ------------------------------------------------------------------------
\* The preconditioner handed to the Krylov solver
\* ------------------------------------------------------------------------
\* C27: whenever ImplicitEuler_Iteration invokes BCGSTAB or FGMRES, the
\* preconditioner passed to it has been constructed (the pointer is not
\* null), for every configured preconditioner kind, ILU included.
C27_PreconditionerConstructed ==
  \A iRank \in TNE2Ranks : SolveInvoked(iRank) => precond # "NULL"

\* for the kinds the routine handles the pointer is set at the call
C27_BuiltKindsConstructed ==
  \A iRank \in TNE2Ranks :
    (SolveInvoked(iRank) /\ Kind_Linear_Solver_Prec \in BuiltPreconditioners)
      => precond # "NULL"

\* ------------------------------------------------------------------------
\* Conservation of the edge contributions
\* ------------------------------------------------------------------------
RECURSIVE SumOver(_, _)
SumOver(f, S) ==
  IF S = {} THEN 0
  ELSE LET x == CHOOSE y \in S : TRUE IN f[x] + SumOver(f, S \ {x})

ResidualSum == SumOver(edgeLinSysRes, EdgePoints)

ColumnSum(block_j) ==
  SumOver([block_i \in EdgePoints |-> edgeJacobian[<<block_i, block_j>>]], EdgePoints)

IsEdgeContribution == resPc \in ResidualRoutines /\ iEdge' = iEdge + 1

\* C28: each edge contribution of Centered_Residual, Upwind_Residual and
\* Viscous_Residual changes LinSysRes at the two end points of the edge only,
\* by opposite amounts, and changes the Jacobian in the block rows of the
\* two end points only, by opposite amounts in each block column; after the
\* zeroing of Preprocessing and any sequence of edge contributions the
\* LinSysRes blocks of all points add up to zero and, with the implicit
\* scheme, so do the Jacobian blocks of every block column.
C28_EdgeContributionsConservative ==
  /\ [][IsEdgeContribution =>
          LET iPoint == edge[iEdge + 1][1]
              jPoint == edge[iEdge + 1][2]
          IN /\ edgeLinSysRes'[iPoint] - edgeLinSysRes[iPoint]
                  = 0 - (edgeLinSysRes'[jPoint] - edgeLinSysRes[jPoint])
             /\ \A kPoint \in EdgePoints \ {iPoint, jPoint} :
                  edgeLinSysRes'[kPoint] = edgeLinSysRes[kPoint]
             /\ \A block_j \in EdgePoints :
                  /\ edgeJacobian'[<<iPoint, block_j>>] - edgeJacobian[<<iPoint, block_j>>]
                       = 0 - (edgeJacobian'[<<jPoint, block_j>>]
                                - edgeJacobian[<<jPoint, block_j>>])
                  /\ \A kPoint \in EdgePoints \ {iPoint, jPoint} :
                       edgeJacobian'[<<kPoint, block_j>>] = edgeJacobian[<<kPoint, block_j>>]]_vars
  /\ [](resPc # "Preprocessing" =>
          /\ ResidualSum = 0
          /\ edgeImplicit => \A block_j \in EdgePoints : ColumnSum(block_j) = 0)

\* the three routines have run on every edge with the implicit scheme, on
\* arrays a previous iteration had left filled, and left every point with a
\* residual and the Jacobian with entries, all adding up to zero
C28_Witness ==
  /\ resPc = "Idle" /\ edgeImplicit
  /\ \A routine \in ResidualRoutines : \E at \in 1..Len(resTrace) : resTrace[at] = routine
  /\ \A iPoint \in EdgePoints : edgeLinSysRes[iPoint] # 0
  /\ \A iPoint \in EdgePoints : edgeJacobian[<<iPoint, iPoint>>] # 0
  /\ ResidualSum = 0
  /\ \A block_j \in EdgePoints : ColumnSum(block_j) = 0

====
